---- MODULE Spec2Model ----
(***************************************************************************)
(* The callback registry of telegram.ext.callbackmanager                   *)
(* (DictCallbackManager, its class-level id counter and its CallbackItem   *)
(* records) together with telegram.flow.actionmarkup.resolve_action_markup,*)
(* which creates one registry entry per rendered ActionButton; the worker  *)
(* threads that allocate ids concurrently; the zero-width codec of         *)
(* telegram.utils.binaryencoder; and the life of one                       *)
(* telegram.flow.actionbutton.ActionButton from construction to to_dict.   *)
(***************************************************************************)
EXTENDS Integers, Sequences, FiniteSets, TLC

VARIABLES
    id_counter,   \* the class attribute id_counter read and written by get_next_id
    items,        \* every CallbackItem constructed so far; a reference is an index
    data,         \* DictCallbackManager._data: callback id -> reference
    ret,          \* the outcome of the most recent call (return value or exception)
    hist,         \* history of get_next_id: the counter at the start, the number of
                  \* calls, the first and the last id returned
    workers,      \* per worker thread: its position inside create_callback and
                  \* get_next_id, the value it read, the ids it was given
    action_button, \* the fields of one ActionButton, NoneV before it is constructed
    codec,        \* the arguments and the result of the last binaryencoder call
    handler,      \* the fields of one update handler, NoneV before it is constructed
    dispatcher,   \* the dispatch loop: the handlers registered, the pending updates,
                  \* the state of each conversation, the callbacks invoked
    request,      \* one BaseRequest: its position in an `async with` block, the
                  \* calls made on it, the last HTTP exchange
    managers      \* registry objects of both registry classes: the id_counter
                  \* attribute of each class, the entries of each object, the
                  \* calls made on each with their outcomes, the ids issued

vars == <<id_counter, items, data, ret, hist, workers, action_button, codec,
          handler, dispatcher, request, managers>>

----------------------------------------------------------------------------
(* Python values.  A string is written by the number whose decimal form it *)
(* is, so that str() and int() are conversions and not the identity.       *)

NoneV == [t |-> "none", v |-> 0]
PyInt(n) == [t |-> "int", v |-> n]
PyStr(n) == [t |-> "str", v |-> n]
PyText(n) == [t |-> "text", v |-> n]
PyObj(n) == [t |-> "obj", v |-> n]
PyChars(s) == [t |-> "chars", v |-> s]
PyBool(b) == [t |-> "bool", v |-> b]
ActionObj(n) == [t |-> "Action", v |-> n]
Uuid(k) == [t |-> "uuid", v |-> k]
Ref(i) == [t |-> "ref", v |-> i]

\* Python truthiness of the values above.
Truthy(x) ==
    CASE x.t = "none" -> FALSE
      [] x.t = "int" -> x.v # 0
      [] x.t = "chars" -> x.v # <<>>
      [] x.t = "bool" -> x.v
      [] x.t = "list" -> x.v # <<>>
      [] OTHER -> TRUE

NoExc == [cls |-> "", msg |-> ""]
Exc(c, m) == [cls |-> c, msg |-> m]

\* The outcome of a function that touches no state.
Ok(val) == [exc |-> NoExc, val |-> val]
Err(exc) == [exc |-> exc, val |-> NoneV]

----------------------------------------------------------------------------
(* Program constants and model bounds.                                     *)

InitialCounter == 100
COUNTER_RELOOP == 2^20 - 1

MaxItems == 2
MaxIssued == 1048581
NumWorkers == 2
MaxCalls == 2

Workers == 1..NumWorkers

StartCounters == {InitialCounter, COUNTER_RELOOP - 2}

ActionArgs == {ActionObj(1), PyStr(1), PyStr(2)}
Payloads == {NoneV, PyText(1)}
ChatArgs == {NoneV, PyInt(1), PyStr(2), PyObj(1), PyText(0)}
LookupChats == {NoneV, PyInt(1), PyInt(2)}
FabricatedIds == {PyInt(101), Uuid(99)}

----------------------------------------------------------------------------
(* The registry's code, as operators over the state record                 *)
(*   st = [id_counter, items, data, hist].                                 *)
(* Each returns [st, exc, val, vals]: the state after the call, the        *)
(* exception raised (NoExc when it returns), the value returned and, for a *)
(* call that returns a list, the list.                                     *)

St == [id_counter |-> id_counter, items |-> items, data |-> data, hist |-> hist]

Returns(st, val) == [st |-> st, exc |-> NoExc, val |-> val, vals |-> <<>>]
Raises(st, exc) == [st |-> st, exc |-> exc, val |-> NoneV, vals |-> <<>>]

\* hist after get_next_id returned id.
Track(h, id) ==
    [start |-> h.start, n |-> h.n + 1,
     first |-> IF h.n = 0 THEN id ELSE h.first, last |-> id]

\* The new value of the counter, which is also the id returned.
\* (NextCounterOffByOne: the variant that wraps one id early.)
NextCounterOffByOne(c) == IF c + 1 >= COUNTER_RELOOP THEN 0 ELSE c + 1
NextCounter(c) == IF c + 1 > COUNTER_RELOOP THEN 0 ELSE c + 1

\* (GetNextIdReturnsOld: the variant that returns the value before the increment.)
GetNextIdReturnsOld(st) ==
    LET c == NextCounter(st.id_counter)
    IN  Returns([st EXCEPT !.id_counter = c, !.hist = Track(st.hist, st.id_counter)],
                PyInt(st.id_counter))
get_next_id(st) ==
    LET c == NextCounter(st.id_counter)
    IN  Returns([st EXCEPT !.id_counter = c, !.hist = Track(st.hist, c)], PyInt(c))

\* str(uuid4()): a value no earlier call returned.
create_unique_uuid(st) ==
    Uuid(1 + Cardinality({i \in 1..Len(st.items) : st.items[i].id.t = "uuid"}))

\* str(action.id) for an Action, str(action) otherwise.
get_action_id(action) == PyStr(action.v)

CallbackItem(id, action, model_data) ==
    [id |-> id, action_id |-> get_action_id(action), model_data |-> model_data,
     chat_id |-> NoneV, one_time_callback |-> FALSE]

\* self._data[cb_id] = callback
\* (StoreKeepExisting: the variant that keeps an entry the key already has.)
StoreKeepExisting(d, id, ref) ==
    IF id \in DOMAIN d THEN d ELSE [k \in DOMAIN d \cup {id} |-> IF k = id THEN ref ELSE d[k]]
Store(d, id, ref) ==
    [k \in DOMAIN d \cup {id} |-> IF k = id THEN ref ELSE d[k]]

\* (CreateCallbackDropsOthers: the variant that keeps no entry but the new
\* one.)
CreateCallbackDropsOthers(st, action, model_data, random_id) ==
    LET got == IF random_id THEN Returns(st, create_unique_uuid(st)) ELSE get_next_id(st)
        ref == Len(st.items) + 1
        callback == CallbackItem(got.val, action, model_data)
    IN  Returns([got.st EXCEPT !.items = Append(st.items, callback),
                               !.data = Store(<<>>, got.val, ref)],
                Ref(ref))
create_callback(st, action, model_data, random_id) ==
    LET got == IF random_id THEN Returns(st, create_unique_uuid(st)) ELSE get_next_id(st)
        ref == Len(st.items) + 1
        callback == CallbackItem(got.val, action, model_data)
    IN  Returns([got.st EXCEPT !.items = Append(st.items, callback),
                               !.data = Store(st.data, got.val, ref)],
                Ref(ref))

lookup_callback(st, callback_id) ==
    IF callback_id \in DOMAIN st.data
    THEN Returns(st, Ref(st.data[callback_id]))
    ELSE Returns(st, NoneV)

\* The exception _check_chat raises, NoExc when it returns.
\* (CheckChatNoUnboundTest: the variant without the test for a missing owner.)
CheckChatNoUnboundTest(st, callback_item, chat_id) ==
    IF callback_item = NoneV
    THEN Exc("AttributeError", "chat_id")
    ELSE IF st.items[callback_item.v].chat_id # chat_id
         THEN Exc("AttributeError", "chat")
         ELSE NoExc
_check_chat(st, callback_item, chat_id) ==
    IF callback_item = NoneV
    THEN Exc("AttributeError", "chat_id")
    ELSE IF st.items[callback_item.v].chat_id = NoneV
         THEN Exc("ValueError", "no chat associated")
         ELSE IF st.items[callback_item.v].chat_id # chat_id
              THEN Exc("AttributeError", "chat")
              ELSE NoExc

lookup_chat_bound_callback(st, chat_id, callback_id) ==
    LET callback_item == lookup_callback(st, callback_id).val
        exc == _check_chat(st, callback_item, chat_id)
    IN  IF exc # NoExc THEN Raises(st, exc) ELSE Returns(st, callback_item)

\* (PeekActionPops: the variant that removes the entry it reads;
\* PeekActionDefault: the variant that answers for an unknown id.)
PeekActionPops(st, callback_id) ==
    IF callback_id \notin DOMAIN st.data
    THEN Raises(st, Exc("CallbackNotFound", "not present"))
    ELSE Returns([st EXCEPT !.data = [k \in DOMAIN st.data \ {callback_id} |-> st.data[k]]],
                 st.items[st.data[callback_id]].action_id)
PeekActionDefault(st, callback_id) ==
    IF callback_id \notin DOMAIN st.data
    THEN Returns(st, PyStr(1))
    ELSE Returns(st, st.items[st.data[callback_id]].action_id)
peek_action(st, callback_id) ==
    IF callback_id \notin DOMAIN st.data
    THEN Raises(st, Exc("CallbackNotFound", "not present"))
    ELSE Returns(st, st.items[st.data[callback_id]].action_id)

\* raise NotImplemented: NotImplemented is no exception, so Python raises TypeError.
set_chat_id(st, callback, chat_id) ==
    Raises(st, Exc("TypeError", "exceptions must derive from BaseException"))

----------------------------------------------------------------------------
(* telegram.utils.binaryencoder.  A Python string is the sequence of its   *)
(* characters; "NL" is the newline, "a" and "1" are visible characters.    *)

ZERO_CHAR_0 == "Z0"
ZERO_CHAR_1 == "Z1"
ZERO_CHAR_DENOMINATOR == "ZD"

\* str.replace for a single character.
Replace(s, old, new) == [i \in 1..Len(s) |-> IF s[i] = old THEN new ELSE s[i]]

\* "{0:b}".format(n) for n >= 0.
\* (BinLeastFirst: the variant that writes the least significant digit first.)
RECURSIVE BinLeastFirst(_)
BinLeastFirst(n) ==
    IF n < 2 THEN <<IF n = 1 THEN "1" ELSE "0">>
    ELSE <<IF n % 2 = 1 THEN "1" ELSE "0">> \o BinLeastFirst(n \div 2)
RECURSIVE Bin(_)
Bin(n) ==
    IF n < 2 THEN <<IF n = 1 THEN "1" ELSE "0">>
    ELSE Bin(n \div 2) \o <<IF n % 2 = 1 THEN "1" ELSE "0">>

\* int(s, 2): white space around the digits is ignored; anything that is then
\* not a non-empty run of binary digits is a ValueError.
RECURSIVE StripNewlines(_)
StripNewlines(s) ==
    IF s = <<>> THEN s
    ELSE IF Head(s) = "NL" THEN StripNewlines(Tail(s))
    ELSE IF s[Len(s)] = "NL" THEN StripNewlines(SubSeq(s, 1, Len(s) - 1))
    ELSE s

IsBase2(s) ==
    /\ StripNewlines(s) # <<>>
    /\ \A i \in 1..Len(StripNewlines(s)) : StripNewlines(s)[i] \in {"0", "1"}

RECURSIVE Base2Value(_)
Base2Value(digits) ==
    IF digits = <<>> THEN 0
    ELSE 2 * Base2Value(SubSeq(digits, 1, Len(digits) - 1))
           + (IF digits[Len(digits)] = "1" THEN 1 ELSE 0)

\* int(id_) for the id values of the registry.
IntOf(id_) ==
    CASE id_.t \in {"int", "str"} -> Ok(id_.v)
      [] id_.t = "none" -> Err(Exc("TypeError", "int() argument"))
      [] OTHER -> Err(Exc("ValueError", "invalid literal for int()"))

_obfuscate_id_binary(id_) ==
    LET n == IntOf(id_)
    IN  IF n.exc # NoExc THEN n
        ELSE Ok(PyChars(Replace(Replace(Bin(n.val), "0", ZERO_CHAR_0), "1", ZERO_CHAR_1)))

_resolve_obfuscated_id(encoded) ==
    LET binary == SelectSeq(Replace(Replace(encoded, ZERO_CHAR_0, "0"), ZERO_CHAR_1, "1"),
                            LAMBDA c : c # ZERO_CHAR_DENOMINATOR)
    IN  IF IsBase2(binary)
        THEN Ok(PyInt(Base2Value(StripNewlines(binary))))
        ELSE Ok(PyChars(binary))

insert_callback_id(query, callback_id) ==
    LET token == _obfuscate_id_binary(callback_id)
    IN  IF token.exc # NoExc THEN token
        ELSE Ok(PyChars(<<ZERO_CHAR_DENOMINATOR>> \o token.val.v \o query))

\* str.lstrip takes a string or None; given a list it raises TypeError.
strip_obfuscation(obfuscated) ==
    Err(Exc("TypeError", "lstrip arg must be None or str"))

\* The regular expression ^D([01]+).+?$ of callback_id_from_query, with D, 0
\* and 1 the three zero-width characters.  MatchRest(text, k): with a group of
\* k characters, .+?$ matches what follows it ("." is any character but the
\* newline, "$" the end of the text or the place before a final newline).
MatchRest(text, k) ==
    \E e \in (k + 2)..Len(text) :
        /\ \A i \in (k + 2)..e : text[i] # "NL"
        /\ \/ e = Len(text)
           \/ e = Len(text) - 1 /\ text[Len(text)] = "NL"

\* The lengths the group ([01]+) can have in a match.
MatchGroups(text) ==
    IF text = <<>> \/ Head(text) # ZERO_CHAR_DENOMINATOR THEN {}
    ELSE {k \in 1..(Len(text) - 1) :
            /\ \A i \in 2..(k + 1) : text[i] \in {ZERO_CHAR_0, ZERO_CHAR_1}
            /\ MatchRest(text, k)}

callback_id_from_query(text) ==
    IF MatchGroups(text) = {} THEN Ok(NoneV)
    ELSE LET k == CHOOSE g \in MatchGroups(text) : \A h \in MatchGroups(text) : h <= g
         IN  _resolve_obfuscated_id(SubSeq(text, 2, k + 1))

----------------------------------------------------------------------------
(* resolve_action_markup and the buttons it renders.                       *)

ActionButton(action, view_data, switch_inline, switch_inline_current_chat) ==
    [cls |-> "ActionButton", action |-> action, view_data |-> view_data,
     switch_inline_query |-> switch_inline,
     switch_inline_query_current_chat |-> switch_inline_current_chat]
KeyboardButton ==
    [cls |-> "KeyboardButton", action |-> NoneV, view_data |-> NoneV,
     switch_inline_query |-> NoneV, switch_inline_query_current_chat |-> NoneV]

ButtonA == ActionButton(ActionObj(1), PyText(1), NoneV, NoneV)
ButtonB == ActionButton(PyStr(2), NoneV, PyText(2), NoneV)

Keyboards ==
    {<<<<ButtonA>>>>, <<<<ButtonB>>>>, <<<<KeyboardButton>>>>,
     <<<<ButtonA>>, <<KeyboardButton, ButtonB>>>>, <<<<ButtonB, ButtonA>>>>}

Markups ==
    [cls : {"InlineKeyboardMarkup", "ReplyKeyboardMarkup"}, keyboard : Keyboards]
        \cup {[cls |-> "ForceReply", keyboard |-> <<>>]}

\* chain.from_iterable(buttons)
\* (ChainLastRowFirst: the variant that takes the rows from the last to the
\* first.)
RECURSIVE ChainLastRowFirst(_)
ChainLastRowFirst(rows) ==
    IF rows = <<>> THEN <<>> ELSE ChainLastRowFirst(Tail(rows)) \o Head(rows)
RECURSIVE Chain(_)
Chain(rows) == IF rows = <<>> THEN <<>> ELSE Head(rows) \o Chain(Tail(rows))

ActionButtonsOf(reply_markup) ==
    SelectSeq(Chain(reply_markup.keyboard), LAMBDA b : b.cls = "ActionButton")

\* ActionButton.insert_callback, after the caller has set is_inline.
insert_callback(st, button, is_inline) ==
    create_callback(st, button.action, button.view_data,
                    is_inline /\ ~(Truthy(button.switch_inline_query)
                                   \/ Truthy(button.switch_inline_query_current_chat)))

\* The loop of resolve_action_markup over the ActionButtons still to do;
\* callbacks is the list built so far.
\* (ResolveLoopRebindsAll: the variant that sets the chat of every entry.)
RECURSIVE ResolveLoopRebindsAll(_, _, _, _, _)
ResolveLoopRebindsAll(st, buttons, is_inline, chat_id, callbacks) ==
    IF buttons = <<>>
    THEN [st |-> st, exc |-> NoExc, val |-> NoneV, vals |-> callbacks]
    ELSE LET made == insert_callback(st, Head(buttons), is_inline)
             bound == [made.st EXCEPT !.items =
                          [i \in DOMAIN made.st.items |->
                              [made.st.items[i] EXCEPT !.chat_id = chat_id]]]
         IN  ResolveLoopRebindsAll(bound, Tail(buttons), is_inline, chat_id,
                                   Append(callbacks, made.val))
RECURSIVE ResolveLoop(_, _, _, _, _)
ResolveLoop(st, buttons, is_inline, chat_id, callbacks) ==
    IF buttons = <<>>
    THEN [st |-> st, exc |-> NoExc, val |-> NoneV, vals |-> callbacks]
    ELSE LET made == insert_callback(st, Head(buttons), is_inline)
             bound == [made.st EXCEPT !.items[made.val.v].chat_id = chat_id]
         IN  ResolveLoop(bound, Tail(buttons), is_inline, chat_id,
                         Append(callbacks, made.val))

resolve_action_markup(st, reply_markup, chat_id) ==
    IF Truthy(chat_id) /\ chat_id.t = "text"
    THEN Raises(st, Exc("ValueError", "invalid literal for int()"))
    ELSE LET chat == IF ~Truthy(chat_id) THEN chat_id
                     ELSE IF chat_id.t \in {"int", "str"} THEN PyInt(chat_id.v)
                     ELSE NoneV
             buttons == IF reply_markup.cls \in {"InlineKeyboardMarkup", "ReplyKeyboardMarkup"}
                        THEN ActionButtonsOf(reply_markup)
                        ELSE <<>>
         IN  ResolveLoop(st, buttons, reply_markup.cls = "InlineKeyboardMarkup", chat, <<>>)

----------------------------------------------------------------------------
(* The state machine: one action per call a client of the registry makes.  *)

Called(op, id, chat, r) ==
    /\ id_counter' = r.st.id_counter
    /\ items' = r.st.items
    /\ data' = r.st.data
    /\ hist' = r.st.hist
    /\ ret' = [op |-> op, id |-> id, chat |-> chat, args |-> <<>>,
               exc |-> r.exc, val |-> r.val, vals |-> r.vals]
    /\ UNCHANGED <<workers, action_button, codec, handler, dispatcher, request,
                   managers>>

NoCall ==
    [op |-> "", id |-> NoneV, chat |-> NoneV, args |-> <<>>,
     exc |-> NoExc, val |-> NoneV, vals |-> <<>>]
NoHist(c) == [start |-> c, n |-> 0, first |-> -1, last |-> -1]

\* A worker thread that is not inside a call and has made none.
IdleWorker == [pc |-> "idle", loaded |-> 0, id |-> NoneV, got |-> <<>>]

\* No binaryencoder function has been called: id and query are the arguments
\* a first call will take, arg is the argument of the last call, src the
\* function whose result that argument was ("" for an argument given afresh).
NoCodec ==
    [op |-> "", src |-> "", id |-> NoneV, query |-> NoneV, arg |-> NoneV,
     out |-> NoneV, exc |-> NoExc]

\* The (user, chat) pairs updates come from; the implicit conversation states
\* and the state the example declares.
Keys == {1, 2}
ENTRY == 0
END == -1
States_ADD_ITEMS == 1

\* What the dispatch loop did with the update it handled last: the update,
\* the state of its conversation before, the handlers whose match was
\* evaluated, the one that matched (0 for none), the callbacks invoked, each
\* with its handler, its payload and what it returned, and the exception
\* caught.
NoLast ==
    [event |-> NoneV, before |-> ENTRY, evaluated |-> <<>>, matched |-> 0,
     invoked |-> <<>>, error |-> NoExc]

\* A dispatcher that has received no update: every conversation is at ENTRY,
\* no error is logged.  start_returns is what the callback
\* start of the application returns.
NoDispatcher ==
    [update_queue |-> <<>>, conversations |-> [key \in Keys |-> ENTRY], received |-> 0,
     logged |-> 0, start_returns |-> PyInt(END), last |-> NoLast]

\* A request object that has not been used.
\* A request object that has not been used: pc is "new" before the `async
\* with` statement, "body" inside its block, "left" after it; test_flag lists
\* the calls of initialize and stop; initialize is the exception initialize
\* raised and raised the one that left the statement; the other fields are
\* the last call of _request_wrapper: what do_request raised or returned, and
\* the exception raised with its message, or the value returned.
NoRequest ==
    [pc |-> "new", test_flag |-> <<>>, initialize |-> NoExc, raised |-> NoExc,
     op |-> "", do_request |-> NoExc, code |-> 0, payload |-> NoneV,
     exc |-> NoExc, message |-> NoneV, val |-> NoneV]

\* The registry classes, and the registry objects of the process with the
\* class of each.
ManagerClasses == {"DictCallbackManager", "RedisCollectionsCallbackManager"}
ManagerObjects ==
    <<"DictCallbackManager", "DictCallbackManager", "RedisCollectionsCallbackManager">>

\* Process start: id_counter is an attribute of ICallbackManager only, no
\* object has an entry, no call was made.  calls and results list the calls
\* made on an object and their outcomes, issued the counter ids given out,
\* each with the object that asked.
NoManagers ==
    [id_counter |-> [cls \in ManagerClasses \cup {"ICallbackManager"} |->
                        IF cls = "ICallbackManager" THEN PyInt(InitialCounter) ELSE NoneV],
     objs |-> [o \in DOMAIN ManagerObjects |->
                  [cls |-> ManagerObjects[o], items |-> <<>>, data |-> <<>>,
                   calls |-> <<>>, results |-> <<>>]],
     issued |-> <<>>]

\* Process start: no registry entry, the counter at its class-level initial value.
InitStart ==
    /\ id_counter = InitialCounter
    /\ items = <<>>
    /\ data = <<>>
    /\ ret = NoCall
    /\ hist = NoHist(id_counter)
    /\ workers = [w \in Workers |-> IdleWorker]
    /\ action_button = NoneV
    /\ codec = NoCodec
    /\ handler = NoneV
    /\ dispatcher = NoDispatcher
    /\ request = NoRequest
    /\ managers = NoManagers

\* A registry constructed when the class counter stands at one of StartCounters.
Init ==
    /\ id_counter \in StartCounters
    /\ items = <<>>
    /\ data = <<>>
    /\ ret = NoCall
    /\ hist = NoHist(id_counter)
    /\ workers = [w \in Workers |-> IdleWorker]
    /\ action_button = NoneV
    /\ codec = NoCodec
    /\ handler = NoneV
    /\ dispatcher = NoDispatcher
    /\ request = NoRequest
    /\ managers = NoManagers

LookupIds == DOMAIN data \cup FabricatedIds

GetNextIdCall(limit) ==
    /\ hist.n < limit
    /\ Called("get_next_id", NoneV, NoneV, get_next_id(St))

CreateCallback ==
    /\ Len(items) < MaxItems
    /\ \E action \in ActionArgs, model_data \in Payloads, random_id \in BOOLEAN :
          Called("create_callback", NoneV, NoneV,
                 create_callback(St, action, model_data, random_id))

ResolveActionMarkupOf(markups, chats) ==
    \E reply_markup \in markups, chat_id \in chats :
        /\ Len(items) + Len(ActionButtonsOf(reply_markup)) <= MaxItems
        /\ Called("resolve_action_markup", NoneV, chat_id,
                  resolve_action_markup(St, reply_markup, chat_id))

ResolveActionMarkup == ResolveActionMarkupOf(Markups, ChatArgs)

\* The chat ids a caller renders a markup for: ChatArgs and the chat id 0.
RenderChats == ChatArgs \cup {PyInt(0)}

\* resolve_action_markup, the markup kept with the result of the call.
RenderMarkup ==
    /\ \E reply_markup \in Markups, chat_id \in RenderChats :
          /\ Len(items) + Len(ActionButtonsOf(reply_markup)) <= MaxItems
          /\ LET r == resolve_action_markup(St, reply_markup, chat_id)
             IN  /\ id_counter' = r.st.id_counter
                 /\ items' = r.st.items
                 /\ data' = r.st.data
                 /\ hist' = r.st.hist
                 /\ ret' = [NoCall EXCEPT !.op = "resolve_action_markup",
                                          !.chat = chat_id, !.args = <<reply_markup>>,
                                          !.exc = r.exc, !.val = r.val, !.vals = r.vals]
    /\ UNCHANGED <<workers, action_button, codec, handler, dispatcher, request,
                   managers>>

SpecRender == Init /\ [][RenderMarkup]_vars

LookupCallback ==
    \E callback_id \in LookupIds :
        Called("lookup_callback", callback_id, NoneV, lookup_callback(St, callback_id))

LookupChatBoundCallback ==
    \E chat_id \in LookupChats, callback_id \in LookupIds :
        Called("lookup_chat_bound_callback", callback_id, chat_id,
               lookup_chat_bound_callback(St, chat_id, callback_id))

PeekAction ==
    \E callback_id \in LookupIds :
        Called("peek_action", callback_id, NoneV, peek_action(St, callback_id))

SetChatId ==
    \E ref \in 1..Len(items), chat_id \in LookupChats \ {NoneV} :
        Called("set_chat_id", Ref(ref), chat_id, set_chat_id(St, Ref(ref), chat_id))

Next ==
    \/ CreateCallback
    \/ ResolveActionMarkup
    \/ LookupCallback
    \/ LookupChatBoundCallback
    \/ PeekAction
    \/ SetChatId

Spec == Init /\ [][Next]_vars

\* get_next_id called over and over from process start.
NextCounterOnly == GetNextIdCall(MaxIssued)

SpecCounter == Init /\ [][NextCounterOnly]_vars

\* The wraparound scenario, from process start.  This registry renders a
\* one-button reply keyboard only while the class counter stands at its initial
\* value, and looks ids up only directly after a call of its own.  In between, another DictCallbackManager, which shares the class
\* counter, renders reply keyboards of OtherButtons ActionButtons: each such
\* call draws OtherButtons ids, and (2^10 + 1) of them draw 2^20 - 1 ids.
OtherButtons == 2^10 - 1

WrapMarkups ==
    {[cls |-> "ReplyKeyboardMarkup", keyboard |-> <<<<b>>>>] : b \in {ButtonA, ButtonB}}
WrapChats == {PyInt(1), PyStr(2)}

\* The state after k calls of get_next_id in a row: the first k \div 2 of
\* them (which the test of hist.n makes TLC evaluate before it goes on), then
\* the rest.
RECURSIVE DrawIds(_, _)
DrawIds(st, k) ==
    IF k = 0 THEN st
    ELSE IF k = 1 THEN get_next_id(st).st
    ELSE LET drawn == DrawIds(st, k \div 2)
         IN  IF drawn.hist.n = st.hist.n + (k \div 2)
             THEN DrawIds(drawn, k - (k \div 2))
             ELSE drawn

WrapRender ==
    /\ id_counter = InitialCounter
    /\ ResolveActionMarkupOf(WrapMarkups, WrapChats)

OtherRender ==
    /\ hist.n + OtherButtons <= MaxIssued
    /\ Called("other.resolve_action_markup", NoneV, NoneV,
              Returns(DrawIds(St, OtherButtons), NoneV))

WrapLookup ==
    /\ ret.op # "other.resolve_action_markup"
    /\ (LookupCallback \/ LookupChatBoundCallback \/ PeekAction)

NextWrap ==
    \/ WrapRender
    \/ OtherRender
    \/ WrapLookup

SpecWrap == InitStart /\ [][NextWrap]_vars

----------------------------------------------------------------------------
(* Worker threads that call create_callback(action, data, random_id=False) *)
(* on one DictCallbackManager with no lock: a thread switch can fall       *)
(* between any two reads or writes of the class attribute id_counter.      *)

WorkerActionArgs == {PyStr(1)}

WorkerStep(w, pc, loaded, id) ==
    workers' = [workers EXCEPT ![w].pc = pc, ![w].loaded = loaded, ![w].id = id]

\* cls.id_counter += 1, first half: the attribute is read.
LoadCounter(w) ==
    /\ workers[w].pc = "idle"
    /\ Len(workers[w].got) < MaxCalls
    /\ WorkerStep(w, "store", id_counter, NoneV)
    /\ UNCHANGED <<id_counter, items, data, ret, hist, action_button, codec, handler, dispatcher, request,
                   managers>>

\* cls.id_counter += 1, second half: the value read, plus one, is written.
StoreCounter(w) ==
    /\ workers[w].pc = "store"
    /\ id_counter' = workers[w].loaded + 1
    /\ WorkerStep(w, "test", workers[w].loaded, NoneV)
    /\ UNCHANGED <<items, data, ret, hist, action_button, codec, handler, dispatcher, request,
                   managers>>

\* if cls.id_counter > cls.COUNTER_RELOOP:
TestReloop(w) ==
    /\ workers[w].pc = "test"
    /\ WorkerStep(w, IF id_counter > COUNTER_RELOOP THEN "reset" ELSE "return",
                  workers[w].loaded, NoneV)
    /\ UNCHANGED <<id_counter, items, data, ret, hist, action_button, codec, handler, dispatcher, request,
                   managers>>

\* cls.id_counter = 0
ResetCounter(w) ==
    /\ workers[w].pc = "reset"
    /\ id_counter' = 0
    /\ WorkerStep(w, "return", workers[w].loaded, NoneV)
    /\ UNCHANGED <<items, data, ret, hist, action_button, codec, handler, dispatcher, request,
                   managers>>

\* return cls.id_counter
ReturnCounter(w) ==
    /\ workers[w].pc = "return"
    /\ WorkerStep(w, "create", workers[w].loaded, PyInt(id_counter))
    /\ hist' = Track(hist, id_counter)
    /\ UNCHANGED <<id_counter, items, data, ret, action_button, codec, handler, dispatcher, request,
                   managers>>

\* callback = CallbackItem(...); self._data[cb_id] = callback; return callback
StoreCallback(w) ==
    /\ workers[w].pc = "create"
    /\ \E action \in WorkerActionArgs :
          /\ items' = Append(items, CallbackItem(workers[w].id, action, NoneV))
          /\ data' = Store(data, workers[w].id, Len(items) + 1)
    /\ workers' = [workers EXCEPT ![w].pc = "idle",
                                   ![w].got = Append(@, workers[w].id.v)]
    /\ ret' = [NoCall EXCEPT !.op = "create_callback", !.val = Ref(Len(items) + 1)]
    /\ UNCHANGED <<id_counter, hist, action_button, codec, handler, dispatcher, request,
                   managers>>

NextWorkers ==
    \E w \in Workers :
        \/ LoadCounter(w)
        \/ StoreCounter(w)
        \/ TestReloop(w)
        \/ ResetCounter(w)
        \/ ReturnCounter(w)
        \/ StoreCallback(w)

SpecWorkers == Init /\ [][NextWorkers]_vars

----------------------------------------------------------------------------
(* Calls of the binaryencoder functions: on arguments given afresh, and on *)
(* the result of the call before.                                          *)

MaxTextLen == 3

TextChars == {"a", "1", "NL", ZERO_CHAR_0, ZERO_CHAR_1, ZERO_CHAR_DENOMINATOR}
Texts == UNION {[1..k -> TextChars] : k \in 0..MaxTextLen}

CounterIds == 0..COUNTER_RELOOP
EmbedIds == {PyInt(0), PyInt(1), PyInt(2), PyInt(5), PyInt(COUNTER_RELOOP), Uuid(1)}

\* Nothing but the codec is in use.
CodecOnly ==
    /\ id_counter = InitialCounter
    /\ items = <<>>
    /\ data = <<>>
    /\ ret = NoCall
    /\ hist = NoHist(id_counter)
    /\ workers = [w \in Workers |-> IdleWorker]
    /\ action_button = NoneV
    /\ handler = NoneV
    /\ dispatcher = NoDispatcher
    /\ request = NoRequest
    /\ managers = NoManagers

\* The argument of a first call is any id the counter can issue.
InitRoundTrip ==
    /\ CodecOnly
    /\ \E n \in CounterIds : codec = [NoCodec EXCEPT !.id = PyInt(n)]

\* The arguments of a first call: an id alone, an id and a text, a text alone.
InitCodec ==
    /\ CodecOnly
    /\ \/ \E id \in EmbedIds : codec = [NoCodec EXCEPT !.id = id]
       \/ \E id \in EmbedIds, query \in Texts :
             codec = [NoCodec EXCEPT !.id = id, !.query = PyChars(query)]
       \/ \E query \in Texts : codec = [NoCodec EXCEPT !.query = PyChars(query)]

CodecCall(op, arg, r) ==
    /\ codec' = [codec EXCEPT !.op = op, !.src = codec.op, !.arg = arg,
                              !.out = r.val, !.exc = r.exc]
    /\ UNCHANGED <<id_counter, items, data, ret, hist, workers, action_button, handler, dispatcher, request,
                   managers>>

\* The call takes the text given afresh.
FreshText == codec.op = "" /\ codec.id = NoneV

\* The call takes the result of the call before, which was of.
ResultOf(of) == codec.op = of /\ codec.exc = NoExc

ObfuscateIdBinary ==
    /\ codec.op = "" /\ codec.id # NoneV /\ codec.query = NoneV
    /\ CodecCall("_obfuscate_id_binary", codec.id, _obfuscate_id_binary(codec.id))

ResolveEncoded ==
    /\ ResultOf("_obfuscate_id_binary")
    /\ CodecCall("_resolve_obfuscated_id", codec.out, _resolve_obfuscated_id(codec.out.v))

ResolveText ==
    /\ FreshText
    /\ CodecCall("_resolve_obfuscated_id", codec.query, _resolve_obfuscated_id(codec.query.v))

InsertCallbackId ==
    /\ codec.op = "" /\ codec.id # NoneV /\ codec.query # NoneV
    /\ CodecCall("insert_callback_id", codec.query,
                 insert_callback_id(codec.query.v, codec.id))

StripInserted ==
    /\ ResultOf("insert_callback_id")
    /\ CodecCall("strip_obfuscation", codec.out, strip_obfuscation(codec.out.v))

StripText ==
    /\ FreshText
    /\ CodecCall("strip_obfuscation", codec.query, strip_obfuscation(codec.query.v))

ExtractInserted ==
    /\ ResultOf("insert_callback_id")
    /\ CodecCall("callback_id_from_query", codec.out, callback_id_from_query(codec.out.v))

ExtractText ==
    /\ FreshText
    /\ CodecCall("callback_id_from_query", codec.query, callback_id_from_query(codec.query.v))

NextRoundTrip ==
    \/ ObfuscateIdBinary
    \/ ResolveEncoded

SpecRoundTrip == InitRoundTrip /\ [][NextRoundTrip]_vars

NextCodec ==
    \/ ObfuscateIdBinary
    \/ ResolveEncoded
    \/ ResolveText
    \/ InsertCallbackId
    \/ StripInserted
    \/ StripText
    \/ ExtractInserted
    \/ ExtractText

SpecCodec == InitCodec /\ [][NextCodec]_vars

----------------------------------------------------------------------------
(* telegram.flow.action.Action and the life of one                         *)
(* telegram.flow.actionbutton.ActionButton: construction, the is_inline    *)
(* setter, insert_callback and to_dict.                                    *)

MaxSerialized == 2

\* A list of strings.
PyList(s) == [t |-> "list", v |-> s]

\* A subclass of ViewModel whose constructor needs no argument, and an
\* instance of the class named cls.
ViewModelType(cls) == [t |-> "type", v |-> cls]
ViewModel(cls) == [t |-> "model", v |-> 0, cls |-> cls]

\* isinstance(x, type) for a type of the program: every ViewModel subclass
\* derives from ViewModel only.
IsInstance(x, type) ==
    /\ x.t = "model"
    /\ type.v \in {x.cls, "ViewModel"}

\* Action.__init__ with an id given: commands is None or a list.
ActionInit(id, caption, commands, model_type, buttons, inline_buttons) ==
    [t |-> "Action", v |-> id, _caption |-> caption, commands |-> commands,
     model_type |-> model_type, buttons |-> buttons, inline_buttons |-> inline_buttons]

\* An Action with the given id and caption (None, a string, or a function),
\* the other arguments left at their defaults.
Action(id, caption) == ActionInit(id, caption, NoneV, NoneV, PyBool(TRUE), PyBool(TRUE))

\* RerouteToAction.__init__: the new object, or the exception raised.
RerouteToAction(origin_action, view_model, new_state) ==
    IF origin_action.t # "Action"
    THEN Err(Exc("AttributeError", "model_type"))
    ELSE IF view_model # NoneV /\ origin_action.model_type = NoneV
    THEN Err(Exc("TypeError", "isinstance() arg 2 must be a type"))
    ELSE IF view_model # NoneV /\ ~IsInstance(view_model, origin_action.model_type)
    THEN Err(Exc("TypeError", "Invalid model type"))
    ELSE Ok([t |-> "RerouteToAction", v |-> origin_action.v,
             origin_action |-> origin_action, new_state |-> new_state,
             view_model |-> IF view_model = NoneV /\ Truthy(origin_action.model_type)
                            THEN ViewModel(origin_action.model_type.v)
                            ELSE view_model])

\* Action.__call__.
Action__call__(self, view_model) == RerouteToAction(self, view_model, NoneV)

\* Action.check_model_consistency.
check_model_consistency(self, provided) == TRUE

\* A caption function: called with no argument it gives base, called with a
\* payload it gives base followed by "v".
CaptionOf(base) == [t |-> "callable", v |-> base]

\* A string of k visible characters.
Cap(k) == [i \in 1..k |-> "a"]

get_caption(action, view_data) ==
    IF action._caption.t = "callable"
    THEN IF view_data = NoneV
         THEN PyChars(action._caption.v)
         ELSE PyChars(action._caption.v \o <<"v">>)
    ELSE action._caption

\* Lines 93-98 of ActionButton.__init__: the exception the two tests of the
\* caption raise, NoExc when it passes both.
\* (CaptionErrorAbove109: the variant whose length limit is one higher.)
CaptionErrorAbove109(caption) ==
    IF caption = NoneV THEN Exc("TypeError", "object of type 'NoneType' has no len()")
    ELSE IF Len(caption.v) > 109 THEN Exc("ValueError", "longer than 108 characters")
    ELSE IF caption.v = <<>> THEN Exc("ValueError", "without a text caption")
    ELSE NoExc
CaptionError(caption) ==
    IF caption = NoneV THEN Exc("TypeError", "object of type 'NoneType' has no len()")
    ELSE IF Len(caption.v) > 108 THEN Exc("ValueError", "longer than 108 characters")
    ELSE IF caption.v = <<>> THEN Exc("ValueError", "without a text caption")
    ELSE NoExc

\* Lines 79-91 of ActionButton.__init__: the caption the tests are made on.
ResolveCaption(action, caption, view_data) ==
    IF caption = NoneV
    THEN IF action.t = "Action"
         THEN IF Truthy(action._caption)
              THEN Ok(get_caption(action, view_data))
              ELSE Err(Exc("ValueError", "neither this button nor its action have a caption"))
         ELSE Err(Exc("ValueError", "a caption must be supplied"))
    ELSE IF action.t = "Action"
         THEN Ok(get_caption(action, view_data))
         ELSE Err(Exc("AttributeError", "get_caption"))

\* ActionButton.__init__: the new object, or the exception raised.  serialized
\* counts the calls of to_dict that returned; it is no field of the object.
ActionButtonInit(action, caption, view_data, switch_inline, switch_inline_current_chat) ==
    LET resolved == ResolveCaption(action, caption, view_data)
    IN  IF resolved.exc # NoExc THEN resolved
        ELSE IF CaptionError(resolved.val) # NoExc THEN Err(CaptionError(resolved.val))
        ELSE IF Truthy(switch_inline) /\ Truthy(switch_inline_current_chat)
        THEN Err(Exc("ValueError", "cannot set both switch_inline and switch_inline_current_chat"))
        ELSE Ok([text |-> resolved.val,
                 switch_inline_query |-> switch_inline,
                 switch_inline_query_current_chat |-> switch_inline_current_chat,
                 _action_id |-> action,
                 _callback |-> NoneV,
                 callback_data |-> NoneV,
                 _is_inline |-> NoneV,
                 _view_data |-> view_data,
                 serialized |-> 0])

\* The object as insert_callback reads it.
AsRendered(b) ==
    [cls |-> "ActionButton", action |-> b._action_id, view_data |-> b._view_data,
     switch_inline_query |-> b.switch_inline_query,
     switch_inline_query_current_chat |-> b.switch_inline_query_current_chat]

\* Lines 135-144 of to_dict: the exception its tests raise, NoExc when it
\* goes on.
\* (ToDictTestsNoSurface: the variant without the test of _is_inline.)
ToDictTestsNoSurface(b) ==
    IF ~Truthy(b._callback)
    THEN Exc("ValueError", "call the insert_callback method before usage")
    ELSE IF (Truthy(b.switch_inline_query) \/ Truthy(b.switch_inline_query_current_chat))
            /\ ~Truthy(b._is_inline)
    THEN Exc("ValueError", "switch_inline will not work with regular KeyboardButtons")
    ELSE NoExc
ToDictTests(b) ==
    IF b._is_inline = NoneV
    THEN Exc("ValueError", "need to know whether they are inline or regular")
    ELSE IF ~Truthy(b._callback)
    THEN Exc("ValueError", "call the insert_callback method before usage")
    ELSE IF (Truthy(b.switch_inline_query) \/ Truthy(b.switch_inline_query_current_chat))
            /\ ~Truthy(b._is_inline)
    THEN Exc("ValueError", "switch_inline will not work with regular KeyboardButtons")
    ELSE NoExc

\* Lines 151-163 of to_dict: the object after the assignment, or the exception
\* insert_callback_id raises; id is self._callback.id.
\* (ToDictFieldsTextOnly: the variant that always rewrites the text.)
ToDictFieldsTextOnly(b, id) ==
    LET text == insert_callback_id(b.text.v, id)
    IN  IF text.exc # NoExc THEN text ELSE Ok([b EXCEPT !.text = text.val])
ToDictFields(b, id) ==
    IF ~Truthy(b._is_inline)
    THEN LET text == insert_callback_id(b.text.v, id)
         IN  IF text.exc # NoExc THEN text ELSE Ok([b EXCEPT !.text = text.val])
    ELSE IF Truthy(b.switch_inline_query)
    THEN LET query == insert_callback_id(b.switch_inline_query.v, id)
         IN  IF query.exc # NoExc THEN query
             ELSE Ok([b EXCEPT !.switch_inline_query = query.val])
    ELSE IF Truthy(b.switch_inline_query_current_chat)
    THEN LET query == insert_callback_id(b.switch_inline_query_current_chat.v, id)
         IN  IF query.exc # NoExc THEN query
             ELSE Ok([b EXCEPT !.switch_inline_query_current_chat = query.val])
    ELSE Ok([b EXCEPT !.callback_data = id])

\* The dict TelegramObject.to_dict builds from the public attributes.
AsDict(b) ==
    [t |-> "dict",
     v |-> [text |-> b.text, callback_data |-> b.callback_data,
            switch_inline_query |-> b.switch_inline_query,
            switch_inline_query_current_chat |-> b.switch_inline_query_current_chat]]

\* ActionButton.to_dict: [exc, val, button], button being the object after
\* the call.
to_dict(st, b) ==
    IF ToDictTests(b) # NoExc
    THEN [exc |-> ToDictTests(b), val |-> NoneV, button |-> b]
    ELSE LET after == ToDictFields(b, st.items[b._callback.v].id)
         IN  IF after.exc # NoExc
             THEN [exc |-> after.exc, val |-> NoneV, button |-> b]
             ELSE [exc |-> NoExc, val |-> AsDict(after.val),
                   button |-> [after.val EXCEPT !.serialized = @ + 1]]

ButtonActions ==
    {PyStr(2), Action(1, NoneV), Action(1, PyChars(<<>>)), Action(1, PyChars(Cap(1))),
     Action(1, PyChars(Cap(108))), Action(1, PyChars(Cap(109))), Action(1, CaptionOf(Cap(108)))}
CaptionArgs == {NoneV, PyChars(<<>>), PyChars(Cap(1)), PyChars(Cap(109))}
SwitchArgs == {NoneV, PyChars(<<"q">>)}

ButtonCall(op, args, exc, val) ==
    ret' = [NoCall EXCEPT !.op = op, !.args = args, !.exc = exc, !.val = val]

Construct ==
    /\ action_button = NoneV
    /\ \E action \in ButtonActions, caption \in CaptionArgs, view_data \in Payloads,
          switch_inline \in SwitchArgs, switch_inline_current_chat \in SwitchArgs :
          LET made == ActionButtonInit(action, caption, view_data,
                                       switch_inline, switch_inline_current_chat)
          IN  /\ action_button' = made.val
              /\ ButtonCall("ActionButton",
                            <<action, caption, view_data,
                              switch_inline, switch_inline_current_chat>>,
                            made.exc, NoneV)
    /\ UNCHANGED <<id_counter, items, data, hist, workers, codec, handler, dispatcher, request,
                   managers>>

\* The is_inline setter, as resolve_action_markup uses it.
SetIsInline ==
    /\ action_button # NoneV
    /\ \E value \in BOOLEAN :
          /\ action_button' = [action_button EXCEPT !._is_inline = PyBool(value)]
          /\ ButtonCall("is_inline", <<PyBool(value)>>, NoExc, NoneV)
    /\ UNCHANGED <<id_counter, items, data, hist, workers, codec, handler, dispatcher, request,
                   managers>>

InsertCallback ==
    /\ action_button # NoneV
    /\ Len(items) < MaxItems
    /\ LET made == insert_callback(St, AsRendered(action_button),
                                   Truthy(action_button._is_inline))
       IN  /\ id_counter' = made.st.id_counter
           /\ items' = made.st.items
           /\ data' = made.st.data
           /\ hist' = made.st.hist
           /\ action_button' = [action_button EXCEPT !._callback = made.val]
           /\ ButtonCall("insert_callback", <<>>, made.exc, made.val)
    /\ UNCHANGED <<workers, codec, handler, dispatcher, request, managers>>

ToDict ==
    /\ action_button # NoneV
    /\ action_button.serialized < MaxSerialized
    /\ LET done == to_dict(St, action_button)
       IN  /\ action_button' = done.button
           /\ ButtonCall("to_dict", <<>>, done.exc, done.val)
    /\ UNCHANGED <<id_counter, items, data, hist, workers, codec, handler, dispatcher, request,
                   managers>>

\* Actions with and without a declared payload type, payloads of each type,
\* and the state ids a reroute may name.
ModelTypes == {NoneV, ViewModelType("ItemModel"), ViewModelType("TextModel")}
TypedActions ==
    {ActionInit(1, caption, NoneV, model_type, PyBool(TRUE), PyBool(TRUE)) :
        caption \in {PyChars(Cap(1)), CaptionOf(Cap(1))}, model_type \in ModelTypes}
ViewModels == {NoneV, ViewModel("ItemModel"), ViewModel("TextModel"), PyText(1)}
NewStates == {NoneV, PyInt(1)}

\* ActionButton(action, view_data=view_data).
ConstructWithPayload ==
    /\ \E action \in TypedActions, view_data \in ViewModels :
          LET made == ActionButtonInit(action, NoneV, view_data, NoneV, NoneV)
          IN  /\ action_button' = made.val
              /\ ButtonCall("ActionButton", <<action, NoneV, view_data, NoneV, NoneV>>,
                            made.exc, NoneV)
    /\ UNCHANGED <<id_counter, items, data, hist, workers, codec, handler, dispatcher, request,
                   managers>>

\* RerouteToAction(origin_action, view_model, new_state).
Reroute ==
    /\ \E origin_action \in TypedActions \cup {PyStr(2)}, view_model \in ViewModels,
          new_state \in NewStates :
          LET made == RerouteToAction(origin_action, view_model, new_state)
          IN  ButtonCall("RerouteToAction", <<origin_action, view_model, new_state>>,
                         made.exc, made.val)
    /\ UNCHANGED <<id_counter, items, data, hist, workers, action_button, codec, handler, dispatcher, request,
                   managers>>

\* action(view_model).
CallAction ==
    /\ \E self \in TypedActions, view_model \in ViewModels :
          LET made == Action__call__(self, view_model)
          IN  ButtonCall("Action.__call__", <<self, view_model>>, made.exc, made.val)
    /\ UNCHANGED <<id_counter, items, data, hist, workers, action_button, codec, handler, dispatcher, request,
                   managers>>

NextPayload ==
    \/ ConstructWithPayload
    \/ Reroute
    \/ CallAction

SpecPayload == Init /\ [][NextPayload]_vars

\* Captions the constructor accepts: one line, and two lines.
IdentityCaptions == {<<"a">>, <<"a", "NL", "a">>}

\* ActionButton(action) for an Action whose caption is one of the above.
ConstructCaptioned ==
    /\ action_button = NoneV
    /\ \E id \in {1, 2}, caption \in IdentityCaptions :
          LET action == Action(id, PyChars(caption))
              made == ActionButtonInit(action, NoneV, NoneV, NoneV, NoneV)
          IN  /\ action_button' = made.val
              /\ ButtonCall("ActionButton", <<action, NoneV, NoneV, NoneV, NoneV>>,
                            made.exc, NoneV)
    /\ UNCHANGED <<id_counter, items, data, hist, workers, codec, handler, dispatcher,
                   request, managers>>

\* The user presses the reply-keyboard button: the text of the button comes
\* back as a message, the id is taken from it with callback_id_from_query
\* and handed to peek_action.
PressReplyButton ==
    /\ action_button # NoneV
    /\ action_button.serialized >= 1
    /\ ~Truthy(action_button._is_inline)
    /\ LET callback_id == callback_id_from_query(action_button.text.v).val
           peeked == peek_action(St, callback_id)
       IN  ButtonCall("peek_action", <<action_button.text, callback_id>>,
                      peeked.exc, peeked.val)
    /\ UNCHANGED <<id_counter, items, data, hist, workers, action_button, codec, handler,
                   dispatcher, request, managers>>

NextIdentity ==
    \/ ConstructCaptioned
    \/ SetIsInline
    \/ InsertCallback
    \/ ToDict
    \/ PressReplyButton

SpecIdentity == Init /\ [][NextIdentity]_vars

NextButton ==
    \/ Construct
    \/ SetIsInline
    \/ InsertCallback
    \/ ToDict

SpecButton == Init /\ [][NextButton]_vars

----------------------------------------------------------------------------
(* The update handlers of telegram.flow: ActionHandler,                    *)
(* ChosenInlineActionHandler and InlineQueryActionHandler.                 *)

\* An incoming telegram.Update: kind names the field that is set, id is the
\* result_id of a chosen inline result or the id of an inline query, query the
\* text of an inline query.
Update(kind, id, user, query) ==
    [t |-> "Update", v |-> 0, kind |-> kind, id |-> id, user |-> user, query |-> query]

PyTuple(s) == [t |-> "tuple", v |-> s]

\* A sub-handler of an ActionHandler: its class and its first argument.
SubHandler(cls, arg) == [cls |-> cls, arg |-> arg]

\* ActionHandler.__init__: the new object, or the exception raised.
ActionHandlerInit(action, callback) ==
    IF action.t # "Action"
    THEN Err(Exc("AttributeError", "buttons"))
    ELSE Ok([cls |-> "ActionHandler", action |-> action, callback |-> callback,
             sub_handlers |->
                 (IF Truthy(action.buttons)
                  THEN <<SubHandler("ReplyActionHandler", action.v)>> ELSE <<>>)
                 \o (IF Truthy(action.inline_buttons)
                     THEN <<SubHandler("InlineActionHandler", action.v)>> ELSE <<>>)
                 \o (IF Truthy(action.commands)
                     THEN <<SubHandler("CommandHandler", action.commands)>> ELSE <<>>)])

\* The loop of ActionHandler.check_update from sub-handler k on.  results
\* gives, per sub-handler class, what that sub-handler's check_update returns
\* for the update; calls lists the sub-handlers asked so far.  The value is
\* None or the tuple (res, handler), handler written by its index.
\* (CheckSubHandlersLastMatch: the variant that goes on after a match and
\* returns the last one.)
RECURSIVE CheckSubHandlersLastMatch(_, _, _, _)
CheckSubHandlersLastMatch(sub_handlers, k, results, calls) ==
    IF k > Len(sub_handlers)
    THEN LET hits == {j \in 1..Len(sub_handlers) :
                         results[sub_handlers[j].cls] \notin {NoneV, PyBool(FALSE)}}
         IN  IF hits = {} THEN [val |-> NoneV, calls |-> calls]
             ELSE LET j == CHOOSE j \in hits : \A i \in hits : i <= j
                  IN  [val |-> PyTuple(<<results[sub_handlers[j].cls], j>>), calls |-> calls]
    ELSE CheckSubHandlersLastMatch(sub_handlers, k + 1, results, Append(calls, k))
RECURSIVE CheckSubHandlers(_, _, _, _)
CheckSubHandlers(sub_handlers, k, results, calls) ==
    IF k > Len(sub_handlers)
    THEN [val |-> NoneV, calls |-> calls]
    ELSE LET res == results[sub_handlers[k].cls]
         IN  IF res # NoneV /\ res # PyBool(FALSE)
             THEN [val |-> PyTuple(<<res, k>>), calls |-> Append(calls, k)]
             ELSE CheckSubHandlers(sub_handlers, k + 1, results, Append(calls, k))

ActionHandler_check_update(self, results) ==
    CheckSubHandlers(self.sub_handlers, 1, results, <<>>)

\* ActionHandler.collect_additional_context: the calls it makes, each with the
\* sub-handler called and the check result handed to it.
ActionHandler_collect_additional_context(self, check_result) ==
    IF check_result.t # "tuple"
    THEN [exc |-> Exc("TypeError", "cannot unpack non-iterable object"), calls |-> <<>>]
    ELSE [exc |-> NoExc,
          calls |-> <<[handler |-> check_result.v[2], check_result |-> check_result.v[1]]>>]

\* ChosenInlineActionHandler.__init__.
ChosenInlineActionHandlerInit(action, callback) ==
    [cls |-> "ChosenInlineActionHandler", action_id |-> get_action_id(action),
     callback |-> callback, most_recent_updates |-> <<>>]

\* deque(maxlen=3).appendleft
\* (AppendLeftUnbounded: the variant without maxlen.)
AppendLeftUnbounded(deque, x) == <<x>> \o deque
AppendLeft(deque, x) ==
    IF Len(deque) < 3 THEN <<x>> \o deque ELSE <<x>> \o SubSeq(deque, 1, 2)

\* ChosenInlineActionHandler.check_update: [st, exc, val, handler], handler
\* being the object after the call.
ChosenInlineActionHandler_check_update(st, self, update) ==
    IF update.t # "Update"
    THEN [st |-> st, exc |-> NoExc, val |-> NoneV, handler |-> self]
    ELSE IF update.kind = "chosen_inline_result"
    THEN LET action_id == peek_action(st, update.id)
         IN  IF action_id.exc # NoExc
             THEN [st |-> action_id.st, exc |-> action_id.exc, val |-> NoneV, handler |-> self]
             ELSE [st |-> action_id.st, exc |-> NoExc,
                   val |-> PyBool(action_id.val = self.action_id), handler |-> self]
    ELSE IF update.kind = "message"
    THEN [st |-> st, exc |-> NoExc, val |-> NoneV,
          handler |-> [self EXCEPT !.most_recent_updates = AppendLeft(@, update)]]
    ELSE [st |-> st, exc |-> NoExc, val |-> NoneV, handler |-> self]

\* A regular expression that matches the texts beginning with the character
\* first, and re.match of it.
Pattern(first) == [t |-> "pattern", v |-> first]
ReMatch(pattern, query) ==
    IF query.v # <<>> /\ Head(query.v) = pattern.v
    THEN [t |-> "match", v |-> query.v]
    ELSE NoneV

\* InlineQueryActionHandler.__init__.
InlineQueryActionHandlerInit(action, callback, pattern) ==
    [cls |-> "InlineQueryActionHandler", action_id |-> get_action_id(action),
     callback |-> callback, pattern |-> pattern]

\* InlineQueryActionHandler.check_update: the value returned.
InlineQueryActionHandler_check_update(self, update) ==
    IF update.t = "Update" /\ update.kind = "inline_query"
    THEN IF update.id # self.action_id THEN PyBool(FALSE)
         ELSE IF Truthy(self.pattern)
         THEN IF Truthy(update.query) THEN ReMatch(self.pattern, update.query) ELSE NoneV
         ELSE PyBool(TRUE)
    ELSE NoneV

\* The actions handlers are made for, the results a sub-handler may give, and
\* the updates handlers are asked about.
HandlerActions ==
    {ActionInit(1, PyChars(Cap(1)), commands, NoneV, PyBool(buttons), PyBool(inline_buttons)) :
        commands \in {NoneV, PyList(<<"start">>)}, buttons \in BOOLEAN,
        inline_buttons \in BOOLEAN}
SubHandlerClasses == {"ReplyActionHandler", "InlineActionHandler", "CommandHandler"}
CheckResults == {NoneV, PyBool(FALSE), PyBool(TRUE), PyList(<<>>)}
Users == {1, 2}
HandlerUpdates ==
    {Update("chosen_inline_result", id, user, NoneV) : id \in LookupIds, user \in Users}
    \cup {Update("message", NoneV, user, NoneV) : user \in Users}
    \cup {Update("inline_query", id, 1, query) :
              id \in {PyStr(1), PyStr(2)},
              query \in {PyChars(<<>>), PyChars(<<"a">>), PyChars(<<"1">>)}}
    \cup {Update("callback_query", NoneV, 1, NoneV), PyObj(1)}

HandlerCall(op, args, exc, val, vals) ==
    ret' = [NoCall EXCEPT !.op = op, !.args = args, !.exc = exc, !.val = val, !.vals = vals]

\* create_callback for an inline result: the id is random.
CreateInlineCallback ==
    /\ Len(items) < MaxItems
    /\ \E action \in ActionArgs :
          LET r == create_callback(St, action, NoneV, TRUE)
          IN  /\ id_counter' = r.st.id_counter
              /\ items' = r.st.items
              /\ data' = r.st.data
              /\ hist' = r.st.hist
              /\ HandlerCall("create_callback", <<action>>, r.exc, r.val, <<>>)
    /\ UNCHANGED <<workers, action_button, codec, handler, dispatcher, request,
                   managers>>

NewActionHandler ==
    /\ handler = NoneV
    /\ \E action \in HandlerActions \cup {PyStr(1)} :
          LET made == ActionHandlerInit(action, "callback")
          IN  /\ handler' = made.val
              /\ HandlerCall("ActionHandler", <<action>>, made.exc, NoneV, <<>>)
    /\ UNCHANGED <<id_counter, items, data, hist, workers, action_button, codec,
                   dispatcher, request, managers>>

NewChosenInlineActionHandler ==
    /\ handler = NoneV
    /\ \E action \in ActionArgs :
          /\ handler' = ChosenInlineActionHandlerInit(action, "callback")
          /\ HandlerCall("ChosenInlineActionHandler", <<action>>, NoExc, NoneV, <<>>)
    /\ UNCHANGED <<id_counter, items, data, hist, workers, action_button, codec,
                   dispatcher, request, managers>>

NewInlineQueryActionHandler ==
    /\ handler = NoneV
    /\ \E action \in ActionArgs, pattern \in {NoneV, Pattern("a")} :
          /\ handler' = InlineQueryActionHandlerInit(action, "callback", pattern)
          /\ HandlerCall("InlineQueryActionHandler", <<action>>, NoExc, NoneV, <<>>)
    /\ UNCHANGED <<id_counter, items, data, hist, workers, action_button, codec,
                   dispatcher, request, managers>>

\* ActionHandler.check_update(update, dispatcher) for an update to which the
\* sub-handlers answer as results says.
ActionCheckUpdate ==
    /\ handler # NoneV
    /\ handler.cls = "ActionHandler"
    /\ \E results \in [SubHandlerClasses -> CheckResults] :
          LET checked == ActionHandler_check_update(handler, results)
          IN  HandlerCall("check_update", <<results>>, NoExc, checked.val, checked.calls)
    /\ UNCHANGED <<id_counter, items, data, hist, workers, action_button, codec,
                   handler, dispatcher, request, managers>>

\* ActionHandler.collect_additional_context with the result of the check
\* just made, as the dispatcher calls it after a match.
ActionCollectContext ==
    /\ handler # NoneV
    /\ handler.cls = "ActionHandler"
    /\ ret.op = "check_update"
    /\ ret.val # NoneV
    /\ LET made == ActionHandler_collect_additional_context(handler, ret.val)
       IN  HandlerCall("collect_additional_context", <<ret.val>>, made.exc, NoneV, made.calls)
    /\ UNCHANGED <<id_counter, items, data, hist, workers, action_button, codec,
                   handler, dispatcher, request, managers>>

ChosenCheckUpdate ==
    /\ handler # NoneV
    /\ handler.cls = "ChosenInlineActionHandler"
    /\ \E update \in HandlerUpdates :
          LET checked == ChosenInlineActionHandler_check_update(St, handler, update)
          IN  /\ id_counter' = checked.st.id_counter
              /\ items' = checked.st.items
              /\ data' = checked.st.data
              /\ hist' = checked.st.hist
              /\ handler' = checked.handler
              /\ HandlerCall("check_update", <<update>>, checked.exc, checked.val, <<>>)
    /\ UNCHANGED <<workers, action_button, codec, dispatcher, request,
                   managers>>

InlineQueryCheckUpdate ==
    /\ handler # NoneV
    /\ handler.cls = "InlineQueryActionHandler"
    /\ \E update \in HandlerUpdates :
          HandlerCall("check_update", <<update>>, NoExc,
                      InlineQueryActionHandler_check_update(handler, update), <<>>)
    /\ UNCHANGED <<id_counter, items, data, hist, workers, action_button, codec,
                   handler, dispatcher, request, managers>>

\* ChosenInlineActionHandler.collect_additional_context: the exception
\* raised, or the payload put into context.view_model and the held-back
\* message put into the update.
ChosenInlineActionHandler_collect_additional_context(st, self, update) ==
    LET callback_item == lookup_callback(st, update.id).val
        held == SelectSeq(self.most_recent_updates, LAMBDA ud : ud.user = update.user)
    IN  IF callback_item = NoneV
        THEN [exc |-> Exc("AttributeError", "model_data"), view_model |-> NoneV,
              message |-> NoneV]
        ELSE [exc |-> NoExc, view_model |-> st.items[callback_item.v].model_data,
              message |-> IF held = <<>> THEN NoneV ELSE held[Len(held)]]

\* InlineQueryActionHandler.collect_additional_context: update.callback_query
\* is None unless the update is a callback query.
InlineQueryActionHandler_collect_additional_context(st, self, update, check_result) ==
    IF update.kind # "callback_query"
    THEN [exc |-> Exc("AttributeError", "id"), view_model |-> NoneV, message |-> NoneV]
    ELSE LET callback_item == lookup_chat_bound_callback(st, PyInt(update.user), update.id)
         IN  IF callback_item.exc # NoExc
             THEN [exc |-> callback_item.exc, view_model |-> NoneV, message |-> NoneV]
             ELSE [exc |-> NoExc, view_model |-> st.items[callback_item.val.v].model_data,
                   message |-> NoneV]

\* An inline keyboard with one button that carries a payload, rendered for
\* chat 1 or with no chat given.
DeliveryRender ==
    ResolveActionMarkupOf({[cls |-> "InlineKeyboardMarkup", keyboard |-> <<<<ButtonA>>>>]},
                          {NoneV, PyInt(1)})

\* collect_additional_context with the update the handler has just matched,
\* as the dispatcher calls it.
ChosenCollectContext ==
    /\ handler # NoneV
    /\ handler.cls = "ChosenInlineActionHandler"
    /\ ret.op = "check_update"
    /\ ret.exc = NoExc
    /\ ret.val # NoneV /\ ret.val # PyBool(FALSE)
    /\ LET made == ChosenInlineActionHandler_collect_additional_context(
                       St, handler, ret.args[1])
       IN  HandlerCall("collect_additional_context", ret.args, made.exc, made.view_model,
                       <<made.message>>)
    /\ UNCHANGED <<id_counter, items, data, hist, workers, action_button, codec,
                   handler, dispatcher, request, managers>>

InlineQueryCollectContext ==
    /\ handler # NoneV
    /\ handler.cls = "InlineQueryActionHandler"
    /\ ret.op = "check_update"
    /\ ret.exc = NoExc
    /\ ret.val # NoneV /\ ret.val # PyBool(FALSE)
    /\ LET made == InlineQueryActionHandler_collect_additional_context(
                       St, handler, ret.args[1], ret.val)
       IN  HandlerCall("collect_additional_context", ret.args, made.exc, made.view_model,
                       <<made.message>>)
    /\ UNCHANGED <<id_counter, items, data, hist, workers, action_button, codec,
                   handler, dispatcher, request, managers>>

NextDelivery ==
    \/ DeliveryRender
    \/ NewChosenInlineActionHandler
    \/ NewInlineQueryActionHandler
    \/ ChosenCheckUpdate
    \/ InlineQueryCheckUpdate
    \/ ChosenCollectContext
    \/ InlineQueryCollectContext

SpecDelivery == InitStart /\ [][NextDelivery]_vars

NextHandlers ==
    \/ CreateInlineCallback
    \/ NewActionHandler
    \/ NewChosenInlineActionHandler
    \/ NewInlineQueryActionHandler
    \/ ActionCheckUpdate
    \/ ActionCollectContext
    \/ ChosenCheckUpdate
    \/ InlineQueryCheckUpdate

SpecHandlers == InitStart /\ [][NextHandlers]_vars

----------------------------------------------------------------------------
(* telegram.request.BaseRequest: the context manager protocol and          *)
(* _request_wrapper.                                                       *)

\* The body of a response: valid says whether it is JSON; the other fields
\* are the entries 'description' and 'parameters' of the JSON object, None
\* when absent.
Body(valid, description, parameters) ==
    [t |-> "bytes", v |-> 0, valid |-> valid, description |-> description,
     parameters |-> parameters]
Parameters(migrate_to_chat_id, retry_after) ==
    [t |-> "dict", v |-> 0, migrate_to_chat_id |-> migrate_to_chat_id,
     retry_after |-> retry_after]

\* A dict is true when it has an entry.
HasEntries(parameters) ==
    /\ parameters # NoneV
    /\ (parameters.migrate_to_chat_id # NoneV \/ parameters.retry_after # NoneV)

TestMessage == PyChars(<<"Test", " ", "Message">>)

\* What a failed _request_wrapper raises: the class and the message.
Raise(cls, message) == [exc |-> Exc(cls, ""), message |-> message, val |-> NoneV]

\* Lines 226-246: the exception for a status code that is no success.
StatusError(code, message) ==
    IF code = 403 THEN Raise("Forbidden", message)
    ELSE IF code \in {404, 401} THEN Raise("InvalidToken", message)
    ELSE IF code = 400 THEN Raise("BadRequest", message)
    ELSE IF code = 409 THEN Raise("Conflict", message)
    ELSE IF code = 413 THEN Raise("NetworkError", PyChars(<<"File too large to upload.">>))
    ELSE IF code = 502 THEN Raise("NetworkError", PyChars(<<"Bad Gateway">>))
    ELSE Raise("NetworkError", PyChars(message.v \o <<" (", ToString(code), ")">>))

\* _request_wrapper after do_request has returned (code, payload).
\* _parse_json_response raises TelegramError, which is no ValueError, so the
\* except clause at line 223 does not catch it.
HandleResponse(code, payload) ==
    IF 200 <= code /\ code <= 299
    THEN [exc |-> NoExc, message |-> NoneV, val |-> payload]
    ELSE IF ~payload.valid
    THEN Raise("TelegramError", PyChars(<<"Invalid server response">>))
    ELSE IF HasEntries(payload.parameters) /\ Truthy(payload.parameters.migrate_to_chat_id)
    THEN Raise("ChatMigrated", payload.parameters.migrate_to_chat_id)
    ELSE IF HasEntries(payload.parameters) /\ Truthy(payload.parameters.retry_after)
    THEN Raise("RetryAfter", payload.parameters.retry_after)
    ELSE StatusError(code, IF Truthy(payload.description)
                           THEN payload.description
                           ELSE PyChars(<<"Unknown HTTPError">>))

\* _request_wrapper: raised is what do_request raised, NoExc when it
\* returned (code, payload).
_request_wrapper(raised, code, payload) ==
    IF raised.cls = "TelegramError"
    THEN Raise("TelegramError", PyChars(<<raised.msg>>))
    ELSE IF raised # NoExc
    THEN Raise("NetworkError",
               PyChars(<<"Unknown error in HTTP implementation: ", raised.msg>>))
    ELSE HandleResponse(code, payload)

\* The status codes and bodies a server answers with, and what do_request or
\* a coroutine of the test may raise.
StatusCodes == {-1, 200, 204, 299, 300, 400, 401, 403, 404, 409, 413, 500, 502}
Bodies ==
    {Body(FALSE, NoneV, NoneV)}
    \cup {Body(TRUE, description, parameters) :
              description \in {NoneV, PyChars(<<>>), TestMessage},
              parameters \in {NoneV, Parameters(NoneV, NoneV), Parameters(PyInt(123), NoneV),
                              Parameters(NoneV, PyInt(42)), Parameters(PyInt(0), PyInt(0))}}
DoRequestErrors == {Exc("TelegramError", "TelegramError"), Exc("RuntimeError", "CustomError")}

\* `async with request:` up to the block: __aenter__ awaits initialize; when
\* that raises, __aenter__ raises, and the statement calls __aexit__ only
\* after an __aenter__ that returned.
AsyncWithEnter ==
    /\ request.pc = "new"
    /\ \E raised \in {NoExc, Exc("RuntimeError", "initialize")} :
          request' = [request EXCEPT !.test_flag = Append(@, "initialize"),
                                     !.initialize = raised,
                                     !.raised = raised,
                                     !.pc = IF raised = NoExc THEN "body" ELSE "left"]
    /\ UNCHANGED <<id_counter, items, data, ret, hist, workers, action_button, codec,
                   handler, dispatcher, managers>>

\* The block ends, by itself or by an exception: __aexit__ awaits stop and
\* returns None, so the exception goes on.
AsyncWithExit ==
    /\ request.pc = "body"
    /\ \E raised \in {NoExc, Exc("ValueError", "block")} :
          request' = [request EXCEPT !.test_flag = Append(@, "stop"),
                                     !.raised = raised,
                                     !.pc = "left"]
    /\ UNCHANGED <<id_counter, items, data, ret, hist, workers, action_button, codec,
                   handler, dispatcher, managers>>

\* A call of _request_wrapper inside the block.
RequestWrapper ==
    /\ request.pc = "body"
    /\ \/ \E code \in StatusCodes, payload \in Bodies :
             LET r == _request_wrapper(NoExc, code, payload)
             IN  request' = [request EXCEPT !.op = "_request_wrapper", !.do_request = NoExc,
                                            !.code = code, !.payload = payload,
                                            !.exc = r.exc, !.message = r.message,
                                            !.val = r.val]
       \/ \E raised \in DoRequestErrors :
             LET r == _request_wrapper(raised, 0, NoneV)
             IN  request' = [request EXCEPT !.op = "_request_wrapper", !.do_request = raised,
                                            !.code = 0, !.payload = NoneV,
                                            !.exc = r.exc, !.message = r.message,
                                            !.val = r.val]
    /\ UNCHANGED <<id_counter, items, data, ret, hist, workers, action_button, codec,
                   handler, dispatcher, managers>>

NextRequest ==
    \/ AsyncWithEnter
    \/ AsyncWithExit
    \/ RequestWrapper

SpecRequest == InitStart /\ [][NextRequest]_vars

----------------------------------------------------------------------------
(* The dispatch loop and the conversation state machine, with the handlers *)
(* examples/actions-todolist.py registers.  The sources hold the           *)
(* registration and the callbacks; the loop, the state machine and the     *)
(* simple handlers follow sections 4.4 to 4.6 of the design document.      *)

MaxUpdates == 3

\* The actions of the example.
Actions_ADD_ITEMS ==
    ActionInit("add_init", PyChars(<<"Add">>), PyList(<<"add", "todo">>), NoneV,
               PyBool(TRUE), PyBool(TRUE))
Actions_REMOVE_ITEMS ==
    ActionInit("remove_init", PyChars(<<"Remove">>), PyList(<<"rem", "remove", "del">>), NoneV,
               PyBool(TRUE), PyBool(TRUE))
Actions_DELETE_ITEM ==
    ActionInit("delete", CaptionOf(<<"Delete">>), NoneV, ViewModelType("ItemModel"),
               PyBool(TRUE), PyBool(TRUE))
Actions_TOGGLE_DONE ==
    ActionInit("done", CaptionOf(<<"Done">>), NoneV, ViewModelType("ItemModel"),
               PyBool(TRUE), PyBool(TRUE))
Actions_START ==
    ActionInit("start", PyChars(<<"Cancel">>), PyList(<<"start">>), ViewModelType("TextModel"),
               PyBool(TRUE), PyBool(TRUE))

\* A registered handler: role says where it is registered ("entry_points",
\* "states" or "fallbacks" of the ConversationHandler, "dispatcher" for
\* add_handler), state the conversation state a "states" handler is for.
RegisteredHandler(cls, action, commands, callback, role, state) ==
    [cls |-> cls, action |-> action, commands |-> commands, callback |-> callback,
     role |-> role, state |-> state]

\* The handlers main() registers, in registration order.
Registered ==
    <<RegisteredHandler("ActionHandler", Actions_ADD_ITEMS, NoneV, "add_items_init",
                        "entry_points", ENTRY),
      RegisteredHandler("MessageHandler", NoneV, NoneV, "add_item",
                        "states", States_ADD_ITEMS),
      RegisteredHandler("ActionHandler", Actions_START, NoneV, "start", "fallbacks", ENTRY),
      RegisteredHandler("ActionHandler", Actions_REMOVE_ITEMS, NoneV, "remove_items_init",
                        "dispatcher", ENTRY),
      RegisteredHandler("ActionHandler", Actions_DELETE_ITEM, NoneV, "delete_item",
                        "dispatcher", ENTRY),
      RegisteredHandler("ActionHandler", Actions_TOGGLE_DONE, NoneV, "toggle_done_state",
                        "dispatcher", ENTRY),
      RegisteredHandler("ActionHandler", Actions_START, NoneV, "start", "dispatcher", ENTRY),
      RegisteredHandler("CommandHandler", NoneV, PyList(<<"toggle">>), "toggle_keyboard",
                        "dispatcher", ENTRY)>>

Callbacks == {Registered[k].callback : k \in DOMAIN Registered}

\* What a callback of the example returns when it does not raise.
CallbackReturn(callback, start_returns) ==
    CASE callback = "start" -> start_returns
      [] callback = "add_items_init" -> PyInt(States_ADD_ITEMS)
      [] callback = "remove_items_init" -> PyInt(States_ADD_ITEMS)
      [] callback = "add_item" ->
            RerouteToAction(Actions_START, ViewModel("TextModel"), NoneV).val
      [] callback = "delete_item" ->
            RerouteToAction(Actions_START, ViewModel("TextModel"), NoneV).val
      [] callback = "toggle_done_state" ->
            RerouteToAction(Actions_START, ViewModel("TextModel"), NoneV).val
      [] callback = "toggle_keyboard" -> NoneV

\* An inbound event: a command message, a free-text message, or the press of
\* a button of an action, with the payload the registry holds for it.
Event(kind, key, command, action, payload) ==
    [kind |-> kind, key |-> key, command |-> command, action |-> action, payload |-> payload]

\* Per-state handler eligibility: in a state other than ENTRY only the
\* handlers registered for that state and the fallbacks are matched.
\* (EligibleInAnyState: the variant without the restriction.)
EligibleInAnyState(h, state) == TRUE
Eligible(h, state) ==
    IF state = ENTRY
    THEN h.role # "states"
    ELSE (h.role = "states" /\ h.state = state) \/ h.role = "fallbacks"

\* What a simple handler answers for an event: a button handler keyed by an
\* action id, a command handler.
ButtonAnswer(kind, action_id, event) ==
    IF event.kind = kind /\ event.action = action_id THEN PyBool(TRUE) ELSE NoneV
CommandAnswer(commands, event) ==
    IF event.kind = "command" /\ \E i \in DOMAIN commands.v : commands.v[i] = event.command
    THEN PyList(<<>>)
    ELSE NoneV

\* match(event) of a registered handler: None or False for no match.
Match(h, event) ==
    CASE h.cls = "ActionHandler" ->
            ActionHandler_check_update(
                ActionHandlerInit(h.action, h.callback).val,
                [cls \in SubHandlerClasses |->
                    CASE cls = "ReplyActionHandler" ->
                            ButtonAnswer("reply_button", h.action.v, event)
                      [] cls = "InlineActionHandler" ->
                            ButtonAnswer("inline_button", h.action.v, event)
                      [] cls = "CommandHandler" -> CommandAnswer(h.action.commands, event)]).val
      [] h.cls = "MessageHandler" -> IF event.kind = "text" THEN PyBool(TRUE) ELSE NoneV
      [] h.cls = "CommandHandler" -> CommandAnswer(h.commands, event)

Matched(result) == result # NoneV /\ result # PyBool(FALSE)

\* The handler chain from handler k on: the handlers evaluated, and the first
\* that matched (0 when none did).
\* (RunChainLastMatch: the variant that evaluates every handler and takes the
\* last that matched.)
RECURSIVE RunChainLastMatch(_, _, _, _)
RunChainLastMatch(k, state, event, evaluated) ==
    IF k > Len(Registered)
    THEN LET hits == {j \in DOMAIN Registered :
                         Eligible(Registered[j], state) /\ Matched(Match(Registered[j], event))}
         IN  [matched |-> IF hits = {} THEN 0
                          ELSE CHOOSE j \in hits : \A i \in hits : i <= j,
              evaluated |-> evaluated]
    ELSE IF ~Eligible(Registered[k], state)
    THEN RunChainLastMatch(k + 1, state, event, evaluated)
    ELSE RunChainLastMatch(k + 1, state, event, Append(evaluated, k))
RECURSIVE RunChain(_, _, _, _)
RunChain(k, state, event, evaluated) ==
    IF k > Len(Registered)
    THEN [matched |-> 0, evaluated |-> evaluated]
    ELSE IF ~Eligible(Registered[k], state)
    THEN RunChain(k + 1, state, event, evaluated)
    ELSE IF Matched(Match(Registered[k], event))
    THEN [matched |-> k, evaluated |-> Append(evaluated, k)]
    ELSE RunChain(k + 1, state, event, Append(evaluated, k))

\* The registered handler of an action: the first registered for it.
HandlerOf(action_id) ==
    CHOOSE k \in DOMAIN Registered :
        /\ Registered[k].action # NoneV
        /\ Registered[k].action.v = action_id
        /\ \A j \in 1..(k - 1) :
              Registered[j].action = NoneV \/ Registered[j].action.v # action_id

\* The conversation state after a callback returned a state id, the end
\* signal or None.
\* (InterpretKeepsState: the variant that never changes the state.)
InterpretKeepsState(state, returned) == state
Interpret(state, returned) ==
    IF returned = NoneV THEN state
    ELSE IF returned.v = END THEN ENTRY
    ELSE returned.v

\* What the loop does with an exception a callback raised: the state of the
\* conversation is the one before the event, the loop goes on.
\* (CaughtEndsConversation: the variant that ends the conversation.)
CaughtEndsConversation(before, callback, invoked) ==
    [state |-> ENTRY, error |-> Exc("Exception", callback), invoked |-> invoked]
Caught(before, callback, invoked) ==
    [state |-> before, error |-> Exc("Exception", callback), invoked |-> invoked]

\* invoke: the callback of handler k is called with the payload; failing is
\* the callback that raises during this event ("" for none).  On a
\* RerouteSignal the handler of the target action is invoked directly with
\* the payload of the signal.
RECURSIVE Invoke(_, _, _, _, _, _)
Invoke(start_returns, failing, k, payload, state, invoked) ==
    LET callback == Registered[k].callback
        returned == CallbackReturn(callback, start_returns)
    IN  IF callback = failing
        THEN Caught(state, callback,
                    Append(invoked, [handler |-> k, payload |-> payload,
                                     raised |-> TRUE, returned |-> NoneV]))
        ELSE IF returned.t = "RerouteToAction"
        THEN Invoke(start_returns, failing, HandlerOf(returned.v), returned.view_model, state,
                    Append(invoked, [handler |-> k, payload |-> payload,
                                     raised |-> FALSE, returned |-> returned]))
        ELSE [state |-> Interpret(state, returned), error |-> NoExc,
              invoked |-> Append(invoked, [handler |-> k, payload |-> payload,
                                           raised |-> FALSE, returned |-> returned])]

\* The events of the model.
Events ==
    {Event("command", 1, "start", "", NoneV), Event("command", 1, "help", "", NoneV),
     Event("text", 1, "", "", NoneV), Event("text", 2, "", "", NoneV),
     Event("reply_button", 1, "", "add_init", NoneV),
     Event("inline_button", 2, "", "add_init", NoneV),
     Event("inline_button", 1, "", "start", NoneV),
     Event("inline_button", 1, "", "delete", ViewModel("ItemModel"))}
StartReturns == {PyInt(END), NoneV, PyInt(States_ADD_ITEMS)}

\* The application is set up; its callback start returns the end signal, as
\* in the example, or None, or a state.
InitDispatch ==
    /\ id_counter = InitialCounter
    /\ items = <<>>
    /\ data = <<>>
    /\ ret = NoCall
    /\ hist = NoHist(id_counter)
    /\ workers = [w \in Workers |-> IdleWorker]
    /\ action_button = NoneV
    /\ codec = NoCodec
    /\ handler = NoneV
    /\ request = NoRequest
    /\ managers = NoManagers
    /\ \E start_returns \in StartReturns :
          dispatcher = [NoDispatcher EXCEPT !.start_returns = start_returns]

\* The transport hands an event to the loop.
ReceiveUpdate ==
    /\ dispatcher.received < MaxUpdates
    /\ \E event \in Events :
          dispatcher' = [dispatcher EXCEPT !.update_queue = Append(@, event),
                                           !.received = @ + 1]
    /\ UNCHANGED <<id_counter, items, data, ret, hist, workers, action_button, codec,
                   handler, request, managers>>

\* The loop handles the event at the head of the queue.
ProcessUpdate ==
    /\ dispatcher.update_queue # <<>>
    /\ LET event == Head(dispatcher.update_queue)
           state == dispatcher.conversations[event.key]
       IN  \E chain \in {RunChain(1, state, event, <<>>)} :
           \E failing \in Callbacks \cup {""} :
           \E ran \in {IF chain.matched = 0
                        THEN [state |-> state, error |-> NoExc, invoked |-> <<>>]
                        ELSE Invoke(dispatcher.start_returns, failing, chain.matched,
                                    event.payload, state, <<>>)} :
               dispatcher' =
                   [dispatcher EXCEPT
                       !.update_queue = Tail(@),
                       !.conversations[event.key] = ran.state,
                       !.logged = IF ran.error = NoExc THEN @ ELSE @ + 1,
                       !.last = [event |-> event, before |-> state,
                                 evaluated |-> chain.evaluated, matched |-> chain.matched,
                                 invoked |-> ran.invoked, error |-> ran.error]]
    /\ UNCHANGED <<id_counter, items, data, ret, hist, workers, action_button, codec,
                   handler, request, managers>>

\* No event has updated a conversation for the configured duration: its
\* state is reset to ENTRY.
ConversationTimeout ==
    /\ \E key \in Keys :
          /\ dispatcher.conversations[key] # ENTRY
          /\ dispatcher' = [dispatcher EXCEPT !.conversations[key] = ENTRY]
    /\ UNCHANGED <<id_counter, items, data, ret, hist, workers, action_button, codec,
                   handler, request, managers>>

NextDispatch ==
    \/ ReceiveUpdate
    \/ ProcessUpdate
    \/ ConversationTimeout

SpecDispatch == InitDispatch /\ [][NextDispatch]_vars

----------------------------------------------------------------------------
(* Worker threads that render reply keyboards: each creates the entry of a *)
(* button as above, and the button is serialized afterwards.               *)

\* The reply-keyboard button of entry ref, as resolve_action_markup leaves
\* it: is_inline is False and _callback is what insert_callback returned.
WorkerButton(ref) ==
    [ActionButtonInit(Action(1, PyChars(Cap(1))), NoneV, NoneV, NoneV, NoneV).val
        EXCEPT !._is_inline = PyBool(FALSE), !._callback = Ref(ref)]

\* button.to_dict() for the button of an entry a worker has created.
WorkerToDict ==
    /\ \E ref \in 1..Len(items) :
          LET done == to_dict(St, WorkerButton(ref))
          IN  /\ action_button' = done.button
              /\ ButtonCall("to_dict", <<Ref(ref)>>, done.exc, done.val)
    /\ UNCHANGED <<id_counter, items, data, hist, workers, codec, handler, dispatcher,
                   request, managers>>

NextSurface ==
    \/ NextWorkers
    \/ WorkerToDict

SpecSurface == Init /\ [][NextSurface]_vars

----------------------------------------------------------------------------
(* Registry objects of both registry classes in one process.  id_counter   *)
(* is declared on ICallbackManager; the classmethod get_next_id reads it   *)
(* by attribute lookup on the class of the object and assigns it on that   *)
(* class.                                                                  *)

MaxManagerCalls == 3

\* cls.id_counter: the attribute of the class when it has one of its own,
\* that of the base class otherwise.
ClassAttr(id_counters, cls) ==
    IF id_counters[cls] # NoneV THEN id_counters[cls] ELSE id_counters["ICallbackManager"]

\* The state the methods of object o work on.
ManagerSt(m, o) ==
    [id_counter |-> ClassAttr(m.id_counter, m.objs[o].cls).v,
     items |-> m.objs[o].items, data |-> m.objs[o].data, hist |-> NoHist(0)]

\* RedisCollectionsCallbackManager.lookup_chat_bound_callback: None for an
\* unknown id; for a known one, after _check_chat, the attribute data, which
\* a CallbackItem does not have.
Redis_lookup_chat_bound_callback(st, chat_id, callback_id) ==
    IF callback_id \notin DOMAIN st.data
    THEN Returns(st, NoneV)
    ELSE LET exc == _check_chat(st, Ref(st.data[callback_id]), chat_id)
         IN  IF exc # NoExc THEN Raises(st, exc)
             ELSE Raises(st, Exc("AttributeError", "data"))

\* The outcome of a call as its caller sees it: the exception, or the value
\* returned, a CallbackItem by its fields.
Outcome(r) ==
    [exc |-> r.exc,
     val |-> IF r.val.t = "ref" THEN [t |-> "CallbackItem", v |-> r.st.items[r.val.v]]
             ELSE r.val,
     vals |-> [i \in DOMAIN r.vals |-> r.st.items[r.vals[i].v]]]

\* The managers after the call op(args) on object o ran as r.  get_next_id
\* assigns id_counter on the class of o; a call that did not reach it
\* assigns nothing.
ManagerCalled(m, o, op, args, r) ==
    LET created == SubSeq(r.st.items, Len(m.objs[o].items) + 1, Len(r.st.items))
        counted == SelectSeq(created, LAMBDA item : item.id.t = "int")
    IN  [m EXCEPT !.id_counter[m.objs[o].cls] =
                      IF r.st.hist.n > 0 THEN PyInt(r.st.id_counter) ELSE @,
                  !.objs[o].items = r.st.items,
                  !.objs[o].data = r.st.data,
                  !.objs[o].calls = Append(@, [op |-> op, args |-> args]),
                  !.objs[o].results = Append(@, Outcome(r)),
                  !.issued = @ \o [i \in DOMAIN counted |-> [obj |-> o, id |-> counted[i].id.v]]]

ManagerCalls(m) == Len(m.objs[1].calls) + Len(m.objs[2].calls) + Len(m.objs[3].calls)

ManagerIds == {PyInt(InitialCounter + 1), Uuid(1)}
ManagerChats == {PyInt(1), PyInt(2)}
ManagerMarkup == [cls |-> "ReplyKeyboardMarkup", keyboard |-> <<<<ButtonA>>>>]

\* manager.create_callback(action, data, random_id)
ManagerCreate ==
    /\ ManagerCalls(managers) < MaxManagerCalls
    /\ \E o \in DOMAIN ManagerObjects, random_id \in BOOLEAN :
          managers' = ManagerCalled(managers, o, "create_callback",
                                    <<PyStr(1), PyText(1), PyBool(random_id)>>,
                                    create_callback(ManagerSt(managers, o), PyStr(1),
                                                    PyText(1), random_id))
    /\ UNCHANGED <<id_counter, items, data, ret, hist, workers, action_button, codec,
                   handler, dispatcher, request>>

\* manager.peek_action(callback_id)
ManagerPeek ==
    /\ ManagerCalls(managers) < MaxManagerCalls
    /\ \E o \in DOMAIN ManagerObjects, callback_id \in ManagerIds :
          managers' = ManagerCalled(managers, o, "peek_action", <<callback_id>>,
                                    peek_action(ManagerSt(managers, o), callback_id))
    /\ UNCHANGED <<id_counter, items, data, ret, hist, workers, action_button, codec,
                   handler, dispatcher, request>>

\* manager.lookup_chat_bound_callback(chat_id, callback_id)
ManagerLookup ==
    /\ ManagerCalls(managers) < MaxManagerCalls
    /\ \E o \in DOMAIN ManagerObjects, chat_id \in ManagerChats, callback_id \in ManagerIds :
          managers' =
              ManagerCalled(managers, o, "lookup_chat_bound_callback", <<chat_id, callback_id>>,
                            IF managers.objs[o].cls = "DictCallbackManager"
                            THEN lookup_chat_bound_callback(ManagerSt(managers, o), chat_id,
                                                            callback_id)
                            ELSE Redis_lookup_chat_bound_callback(ManagerSt(managers, o),
                                                                  chat_id, callback_id))
    /\ UNCHANGED <<id_counter, items, data, ret, hist, workers, action_button, codec,
                   handler, dispatcher, request>>

\* resolve_action_markup(manager, reply_markup, chat_id), which binds the
\* entries it creates to the chat.
ManagerRender ==
    /\ ManagerCalls(managers) < MaxManagerCalls
    /\ \E o \in DOMAIN ManagerObjects :
          managers' = ManagerCalled(managers, o, "resolve_action_markup",
                                    <<ManagerMarkup, PyInt(1)>>,
                                    resolve_action_markup(ManagerSt(managers, o),
                                                          ManagerMarkup, PyInt(1)))
    /\ UNCHANGED <<id_counter, items, data, ret, hist, workers, action_button, codec,
                   handler, dispatcher, request>>

NextManagers ==
    \/ ManagerCreate
    \/ ManagerPeek
    \/ ManagerLookup
    \/ ManagerRender

SpecManagers == InitStart /\ [][NextManagers]_vars

----------------------------------------------------------------------------
(* Properties of the registry.                                             *)

UnboundCallback == Exc("ValueError", "no chat associated")
ChatMismatch == Exc("ValueError", "does not belong to this chat")

\* The ids carried by the entries this registry has created.
IssuedIds == {items[i].id : i \in 1..Len(items)}

\* The most recently created entry that carries id.
Newest(id) ==
    CHOOSE i \in 1..Len(items) :
        /\ items[i].id = id
        /\ \A j \in 1..Len(items) : items[j].id = id => j <= i

\* lookup_chat_bound_callback was the last call, on an id the registry holds.
LookedUpEntry ==
    /\ ret.op = "lookup_chat_bound_callback"
    /\ ret.id \in DOMAIN data

\* C1: registry isolation.  A chat-bound lookup of an entry owned by chat A
\* with a chat id other than A fails with the ChatMismatch error and returns
\* neither the entry nor its payload.
C1_RegistryIsolation ==
    (LookedUpEntry /\ ret.chat # NoneV
                   /\ items[data[ret.id]].chat_id \notin {NoneV, ret.chat})
        => (ret.exc = ChatMismatch /\ ret.val = NoneV)

\* C2: unbound lookup.  A chat-bound lookup of an entry whose owning chat is
\* still None fails with the UnboundCallback error, whatever chat id is
\* supplied, and returns nothing.
C2_UnboundLookup ==
    (LookedUpEntry /\ items[data[ret.id]].chat_id = NoneV)
        => (ret.exc = UnboundCallback /\ ret.val = NoneV)

C2_Witness ==
    /\ LookedUpEntry
    /\ items[data[ret.id]].chat_id = NoneV
    /\ ret.chat = PyInt(2)
    /\ ret.exc = UnboundCallback

\* C3: owner immutability.  No step changes the owning chat of an entry whose
\* owning chat is already set, and no step discards such an entry.
C3_OwnerImmutable ==
    [][\A i \in 1..Len(items) :
          items[i].chat_id # NoneV
              => (i <= Len(items') /\ items'[i].chat_id = items[i].chat_id)]_vars

C3_Witness ==
    /\ Len(items) = 2
    /\ items[1].chat_id = PyInt(1)
    /\ items[2].chat_id = PyInt(2)
    /\ ret.op = "resolve_action_markup"
    /\ ret.vals = <<Ref(2)>>

\* C4: bind_chat.  set_chat_id on an entry without an owner records the given
\* chat as the owner; on an entry that has an owner it is rejected and the
\* owner stays as it was.
C4_BindChat ==
    [][ret'.op = "set_chat_id"
          => IF items[ret'.id.v].chat_id = NoneV
             THEN ret'.exc = NoExc /\ items'[ret'.id.v].chat_id = ret'.chat
             ELSE ret'.exc # NoExc
                  /\ items'[ret'.id.v].chat_id = items[ret'.id.v].chat_id]_vars

\* C5: peek_action has no side effect.  A peek_action step, failing or not,
\* leaves the registry's entries, every entry's fields and the id counter as
\* they were; when it returns, it returns the action id of the entry held for
\* the id.
C5_PeekPure ==
    [][ret'.op = "peek_action"
          => /\ data' = data
             /\ items' = items
             /\ id_counter' = id_counter
             /\ ret'.exc = NoExc =>
                   /\ ret'.id \in DOMAIN data
                   /\ ret'.val = items[data[ret'.id]].action_id]_vars

C5_Witness ==
    /\ ret.op = "peek_action"
    /\ ret.exc = NoExc
    /\ ret.val = PyStr(2)
    /\ Len(items) = 2

\* C6: peek_action raises CallbackNotFound exactly for the ids the registry
\* holds no entry for, which are the ids this registry never issued, and
\* returns no action id for them.
C6_PeekNotFound ==
    ret.op = "peek_action"
        => /\ ret.exc.cls = "CallbackNotFound" <=> ret.id \notin DOMAIN data
           /\ ret.exc.cls = "CallbackNotFound" <=> ret.id \notin IssuedIds
           /\ ret.id \notin IssuedIds => ret.val = NoneV
           /\ ret.id \in IssuedIds => ret.exc = NoExc

C6_Witness ==
    /\ ret.op = "peek_action"
    /\ ret.exc.cls = "CallbackNotFound"
    /\ ret.id = PyInt(101)
    /\ items # <<>>

\* C7: a chat-bound lookup of an id the registry does not hold fails with the
\* CallbackNotFound error and returns nothing.
C7_LookupNotFound ==
    (ret.op = "lookup_chat_bound_callback" /\ ret.id \notin DOMAIN data)
        => (ret.exc.cls = "CallbackNotFound" /\ ret.val = NoneV)

\* C8: counter step.  Every id get_next_id returns lies in 0..2^20 - 1, and an
\* id returned by a call that follows another is the earlier id plus 1, or 0
\* when the earlier id was 2^20 - 1.
C8_CounterStep ==
    [][hist'.n = hist.n + 1
          => /\ hist'.last \in 0..(2^20 - 1)
             /\ hist.n >= 1 =>
                   hist'.last = IF hist.last = 2^20 - 1 THEN 0 ELSE hist.last + 1]_vars

C8_Witness ==
    /\ ret.op = "get_next_id"
    /\ hist.n = 3
    /\ hist.first = 2^20 - 2
    /\ hist.last = 0

\* C9 as stated: of the ids issued from process start, the 6th equals the 1st,
\* and that reused id is 0.
C9_SixthIsFirst ==
    (hist.start = InitialCounter /\ hist.n = 6)
        => (hist.last = hist.first /\ hist.last = 0)

\* C9 as amended: of the ids issued from process start, the 1st is 101 and the
\* (2^20 + 1)-th is the first to equal it.
C9_LapReturnsToFirst ==
    (hist.start = InitialCounter /\ hist.n >= 1)
        => /\ hist.first = 101
           /\ hist.last = hist.first <=> hist.n \in {1, 2^20 + 1}

C9_Witness ==
    /\ hist.start = InitialCounter
    /\ hist.n = 2^20 + 1
    /\ hist.last = 101

\* C10: stale-entry overwrite.  The registry holds, for every id it issued, the
\* most recently created entry that carries the id; peek_action and both
\* lookups answer from that entry: its action id, the entry itself (with its
\* payload), and its owning chat as the one a chat-bound lookup accepts.
C10_StaleOverwrite ==
    /\ DOMAIN data = IssuedIds
    /\ \A id \in IssuedIds : data[id] = Newest(id)
    /\ (ret.op = "peek_action" /\ ret.id \in IssuedIds)
          => ret.val = items[Newest(ret.id)].action_id
    /\ (ret.op = "lookup_callback" /\ ret.id \in IssuedIds)
          => ret.val = Ref(Newest(ret.id))
    /\ (ret.op = "lookup_chat_bound_callback" /\ ret.id \in IssuedIds)
          => IF items[Newest(ret.id)].chat_id = ret.chat
             THEN ret.val = Ref(Newest(ret.id))
             ELSE ret.val = NoneV /\ ret.exc # NoExc

C10_Witness ==
    /\ Len(items) = 2
    /\ items[1].id = items[2].id
    /\ items[1].action_id # items[2].action_id
    /\ items[1].chat_id # items[2].chat_id
    /\ ret.op = "lookup_chat_bound_callback"
    /\ ret.id = items[2].id
    /\ ret.chat = items[2].chat_id
    /\ ret.val = Ref(2)
    /\ items[ret.val.v].model_data = items[2].model_data

\* The ids the workers' completed calls were given, in any order.
RECURSIVE Concat(_)
Concat(ws) ==
    IF ws = {} THEN <<>>
    ELSE LET w == CHOOSE x \in ws : TRUE IN workers[w].got \o Concat(ws \ {w})

GivenIds == Concat(Workers)

Quiescent == \A w \in Workers : workers[w].pc = "idle"

\* C11: counter allocation is atomic.  Whatever the interleaving of the
\* workers, the ids their calls were given (fewer than 2^20 of them) are pairwise
\* different, and once every call has returned the counter has advanced by
\* exactly the number of calls (modulo 2^20).
C11_CounterAtomic ==
    /\ \A i, j \in 1..Len(GivenIds) : i # j => GivenIds[i] # GivenIds[j]
    /\ Quiescent => id_counter = (hist.start + Len(GivenIds)) % 2^20

\* The two zero-width characters that stand for the binary digits.
TokenAlphabet == {ZERO_CHAR_0, ZERO_CHAR_1}

\* tok writes n in binary over TokenAlphabet, most significant digit first,
\* with no leading zero digit.
IsBinaryOf(tok, n) ==
    /\ Len(tok) >= 1
    /\ Len(tok) > 1 => tok[1] = ZERO_CHAR_1
    /\ n < 2^Len(tok)
    /\ \A i \in 1..Len(tok) :
          tok[i] = IF (n \div 2^(Len(tok) - i)) % 2 = 1 THEN ZERO_CHAR_1 ELSE ZERO_CHAR_0

\* C12: codec round trip.  For every integer n in 0..2^20 - 1,
\* _obfuscate_id_binary(n) is n written in binary over the two zero-width
\* characters, most significant digit first and without padding, and
\* _resolve_obfuscated_id of that token is n.
C12_CodecRoundTrip ==
    /\ (codec.op = "_obfuscate_id_binary" /\ codec.id.t = "int")
          => (codec.exc = NoExc /\ IsBinaryOf(codec.out.v, codec.id.v))
    /\ (codec.op = "_resolve_obfuscated_id" /\ codec.src = "_obfuscate_id_binary")
          => (codec.exc = NoExc /\ codec.out = codec.id)

C12_Witness ==
    /\ codec.op = "_resolve_obfuscated_id"
    /\ codec.src = "_obfuscate_id_binary"
    /\ codec.id = PyInt(2^20 - 1)
    /\ codec.arg = PyChars([i \in 1..20 |-> ZERO_CHAR_1])
    /\ codec.out = PyInt(2^20 - 1)

\* The text begins with a token: the separator and at least one character of
\* the token alphabet.
HasEmbeddedToken(text) ==
    /\ Len(text) >= 2
    /\ text[1] = ZERO_CHAR_DENOMINATOR
    /\ text[2] \in TokenAlphabet

\* C13: extraction inverse.  callback_id_from_query(insert_callback_id(t, n))
\* is n for every text t and every integer id n, and callback_id_from_query(t)
\* is None for every text t that does not begin with a token.
C13_ExtractionInverse ==
    /\ (codec.op = "callback_id_from_query" /\ codec.src = "insert_callback_id"
            /\ codec.id.t = "int")
          => (codec.exc = NoExc /\ codec.out = codec.id)
    /\ (codec.op = "callback_id_from_query" /\ codec.src = ""
            /\ ~HasEmbeddedToken(codec.arg.v))
          => (codec.exc = NoExc /\ codec.out = NoneV)

\* C14: embedding transparency.  insert_callback_id(t, n) is the separator,
\* then characters of the token alphabet, then t unchanged; strip_obfuscation
\* of it returns exactly t.
C14_EmbeddingTransparent ==
    /\ (codec.op = "insert_callback_id" /\ codec.id.t = "int")
          => /\ codec.exc = NoExc
             /\ \E k \in 1..20 :
                   /\ Len(codec.out.v) = 1 + k + Len(codec.query.v)
                   /\ codec.out.v[1] = ZERO_CHAR_DENOMINATOR
                   /\ \A i \in 2..(k + 1) : codec.out.v[i] \in TokenAlphabet
                   /\ SubSeq(codec.out.v, k + 2, Len(codec.out.v)) = codec.query.v
    /\ (codec.op = "strip_obfuscation" /\ codec.src = "insert_callback_id")
          => (codec.exc = NoExc /\ codec.out = codec.query)

\* What is left of a token once the separator characters are taken out is
\* empty or has a character outside the token alphabet.
IsMalformed(token) ==
    LET rest == SelectSeq(token, LAMBDA c : c # ZERO_CHAR_DENOMINATOR)
    IN  rest = <<>> \/ \E i \in 1..Len(rest) : rest[i] \notin TokenAlphabet

\* C15: _resolve_obfuscated_id of a malformed token fails with the
\* MalformedToken error and returns no value.
C15_MalformedToken ==
    (codec.op = "_resolve_obfuscated_id" /\ IsMalformed(codec.arg.v))
        => (codec.exc.cls = "MalformedToken" /\ codec.out = NoneV)

\* The last call constructed, or failed to construct, an ActionButton from an
\* Action; its arguments by name.
ConstructedFromAction ==
    /\ ret.op = "ActionButton"
    /\ ret.args[1].t = "Action"

\* The caption the constructor resolved for the arguments of the last call.
ResolvedCaption == get_caption(ret.args[1], ret.args[3])

BothSwitches == Truthy(ret.args[4]) /\ Truthy(ret.args[5])

C17_TokenBudget ==
    (/\ ret.op = "to_dict"
     /\ ret.exc = NoExc
     /\ action_button.serialized = 1
     /\ ~Truthy(action_button._is_inline))
        => Len(action_button.text.v) <= 128

\* C18: insert_callback on a button whose surface kind is not set fails; it
\* creates no registry entry and draws no id from the counter.
C18_FinalizeNeedsSurface ==
    [][(ret'.op = "insert_callback" /\ action_button._is_inline = NoneV)
          => /\ ret'.exc # NoExc
             /\ items' = items
             /\ data' = data
             /\ id_counter' = id_counter]_vars

\* C19: serialization protocol.  A call of to_dict returns only if the
\* surface kind was set and insert_callback was called before it; a call that
\* raises leaves the text, the switch-inline fields and callback_data of the
\* button as they were.
C19_SerializationProtocol ==
    [][ret'.op = "to_dict"
          => /\ (action_button._is_inline = NoneV \/ action_button._callback = NoneV)
                   => ret'.exc # NoExc
             /\ ret'.exc # NoExc =>
                   /\ action_button'.text = action_button.text
                   /\ action_button'.switch_inline_query
                         = action_button.switch_inline_query
                   /\ action_button'.switch_inline_query_current_chat
                         = action_button.switch_inline_query_current_chat
                   /\ action_button'.callback_data = action_button.callback_data]_vars

C19_Witness ==
    /\ ret.op = "to_dict"
    /\ ret.exc.cls = "ValueError"
    /\ action_button._callback # NoneV
    /\ action_button._is_inline = NoneV
    /\ action_button.text = PyChars(Cap(1))
    /\ action_button.callback_data = NoneV
    /\ action_button.serialized = 0

\* The button has no switch-inline field set.
Plain(b) ==
    /\ ~Truthy(b.switch_inline_query)
    /\ ~Truthy(b.switch_inline_query_current_chat)

\* C20: surface-dependent finalization.  to_dict on a finalized plain inline
\* button returns, sets callback_data to the id of the button's registry entry
\* and leaves the text as it was; to_dict on a finalized plain reply-keyboard
\* button (which has a counter-mode id) returns, rewrites the text to
\* insert_callback_id(text, id), that is the separator, the id in binary and
\* the text, and leaves callback_data as it was.
C20_SurfaceFinalization ==
    [][(ret'.op = "to_dict" /\ action_button._callback # NoneV /\ Plain(action_button))
          => LET b == action_button
                 id == items[b._callback.v].id
             IN  /\ b._is_inline = PyBool(TRUE) =>
                       /\ ret'.exc = NoExc
                       /\ action_button'.callback_data = id
                       /\ action_button'.text = b.text
                 /\ (b._is_inline = PyBool(FALSE) /\ id.t = "int") =>
                       /\ ret'.exc = NoExc
                       /\ action_button'.text
                             = PyChars(<<ZERO_CHAR_DENOMINATOR>>
                                       \o _obfuscate_id_binary(id).val.v \o b.text.v)
                       /\ action_button'.text = insert_callback_id(b.text.v, id).val
                       /\ action_button'.callback_data = b.callback_data]_vars

C20_Witness ==
    /\ ret.op = "to_dict"
    /\ ret.exc = NoExc
    /\ action_button.serialized = 1
    /\ action_button._is_inline = PyBool(FALSE)
    /\ action_button.callback_data = NoneV
    /\ action_button.text = PyChars(<<ZERO_CHAR_DENOMINATOR>>
                                     \o [i \in 1..7 |-> IF i \in {1, 2, 5, 7}
                                                         THEN ZERO_CHAR_1 ELSE ZERO_CHAR_0]
                                     \o <<"a">>)

\* The last call attached a payload to an Action that declares a payload
\* type: the action and the payload.
PayloadCall ==
    /\ ret.op \in {"ActionButton", "RerouteToAction", "Action.__call__"}
    /\ ret.args[1].t = "Action"
    /\ ret.args[1].model_type # NoneV
AttachedPayload == IF ret.op = "ActionButton" THEN ret.args[3] ELSE ret.args[2]

\* C21: payload type check.  When an Action declares a model_type, a payload
\* attached to it by ActionButton(view_data=...), by RerouteToAction or by
\* Action.__call__ that is no instance of that type makes the construction
\* raise TypeError.
C21_PayloadTypeCheck ==
    (/\ PayloadCall
     /\ AttachedPayload # NoneV
     /\ ~IsInstance(AttachedPayload, ret.args[1].model_type))
        => ret.exc.cls = "TypeError"

\* The buttons of a keyboard in row-major order: the rows before the last
\* row, then the last row.
RECURSIVE RowMajor(_)
RowMajor(rows) ==
    IF rows = <<>> THEN <<>>
    ELSE RowMajor(SubSeq(rows, 1, Len(rows) - 1)) \o rows[Len(rows)]

\* The ActionButtons of the markup of the last call, in row-major order.
RenderedButtons(call) ==
    LET all == RowMajor(call.args[1].keyboard)
        F[k \in 0..Len(all)] ==
            IF k = 0 THEN <<>>
            ELSE IF all[k].cls = "ActionButton" THEN Append(F[k - 1], all[k])
            ELSE F[k - 1]
    IN  F[Len(all)]

\* C22: chat binding of rendered buttons.  When resolve_action_markup is
\* called for a chat id c (an integer, or a string of digits), then for every
\* ActionButton of the markup exactly one entry is added to the registry, for
\* that button's action and payload and owned by int(c); the list returned
\* holds these entries, one per ActionButton, in row-major order of the
\* keyboard; a button that is no ActionButton adds no entry, and the entries
\* there were stay as they are.
C22_ChatBinding ==
    [][(ret'.op = "resolve_action_markup" /\ ret'.chat.t \in {"int", "str"})
          => LET buttons == RenderedButtons(ret')
                 n == Len(buttons)
                 old == Len(items)
             IN  /\ ret'.exc = NoExc
                 /\ Len(items') = old + n
                 /\ SubSeq(items', 1, old) = items
                 /\ ret'.vals = [k \in 1..n |-> Ref(old + k)]
                 /\ DOMAIN data' = DOMAIN data \cup {items'[old + k].id : k \in 1..n}
                 /\ \A k \in 1..n :
                       /\ items'[old + k].chat_id = PyInt(ret'.chat.v)
                       /\ items'[old + k].action_id = get_action_id(buttons[k].action)
                       /\ items'[old + k].model_data = buttons[k].view_data
                       /\ data'[items'[old + k].id] = old + k]_vars

C22_Witness ==
    /\ ret.op = "resolve_action_markup"
    /\ ret.chat = PyStr(2)
    /\ ret.args[1].keyboard = <<<<ButtonA>>, <<KeyboardButton, ButtonB>>>>
    /\ ret.vals = <<Ref(1), Ref(2)>>
    /\ items[1].chat_id = PyInt(2)
    /\ items[1].action_id = PyStr(1)
    /\ items[2].chat_id = PyInt(2)
    /\ items[2].action_id = PyStr(2)

\* The order in which a composite handler is to try the forms of its action.
SubHandlerOrder == <<"ReplyActionHandler", "InlineActionHandler", "CommandHandler">>

\* The handler has a sub-handler of the class, by the fields of its action.
HasSubHandler(h, cls) ==
    CASE cls = "ReplyActionHandler" -> Truthy(h.action.buttons)
      [] cls = "InlineActionHandler" -> Truthy(h.action.inline_buttons)
      [] cls = "CommandHandler" -> Truthy(h.action.commands)

\* The classes of the sub-handlers named by a list of indices.
ClassesOf(h, indices) == [i \in DOMAIN indices |-> h.sub_handlers[indices[i]].cls]

\* The sub-handler classes the handler has among the first n of the order, in
\* that order.
TriedUpTo(h, n) ==
    LET F[k \in 0..n] ==
            IF k = 0 THEN <<>>
            ELSE IF HasSubHandler(h, SubHandlerOrder[k]) THEN Append(F[k - 1], SubHandlerOrder[k])
            ELSE F[k - 1]
    IN  F[n]

\* C23: composite handler delegation.  ActionHandler.check_update asks its
\* sub-handlers in the order reply-button, inline-button, command, stops at
\* the first whose answer is neither None nor False and returns that answer
\* with that sub-handler, and returns None when there is none;
\* collect_additional_context then calls collect_additional_context of that
\* sub-handler, with that answer, and of no other.
C23_CompositeDelegation ==
    /\ (ret.op = "check_update" /\ handler.cls = "ActionHandler") =>
          LET results == ret.args[1]
              hits == {k \in 1..3 : /\ HasSubHandler(handler, SubHandlerOrder[k])
                                    /\ results[SubHandlerOrder[k]] \notin {NoneV, PyBool(FALSE)}}
          IN  IF hits = {}
              THEN /\ ret.val = NoneV
                   /\ ClassesOf(handler, ret.vals) = TriedUpTo(handler, 3)
              ELSE LET first == CHOOSE k \in hits : \A j \in hits : k <= j
                   IN  /\ ret.val.t = "tuple"
                       /\ ret.val.v[1] = results[SubHandlerOrder[first]]
                       /\ handler.sub_handlers[ret.val.v[2]].cls = SubHandlerOrder[first]
                       /\ ClassesOf(handler, ret.vals) = TriedUpTo(handler, first)
    /\ ret.op = "collect_additional_context" =>
          /\ ret.exc = NoExc
          /\ Len(ret.vals) = 1
          /\ ret.vals[1].handler = ret.args[1].v[2]
          /\ ret.vals[1].check_result = ret.args[1].v[1]

C23_Witness ==
    /\ ret.op = "collect_additional_context"
    /\ Len(handler.sub_handlers) = 3
    /\ ret.args[1] = PyTuple(<<PyList(<<>>), 2>>)
    /\ handler.sub_handlers[ret.vals[1].handler].cls = "InlineActionHandler"

\* C24 as stated: matching is pure.  A call of check_update changes neither
\* the registry, nor the counter, nor the conversation state, nor a field of
\* the handler.
C24_MatchingPure ==
    [][ret'.op = "check_update"
          => /\ id_counter' = id_counter
             /\ items' = items
             /\ data' = data
             /\ dispatcher' = dispatcher
             /\ handler' = handler]_vars

\* C24, amended: a call of check_update changes neither the registry, nor the
\* counter, nor the conversation state; it changes no field of the handler,
\* except that ChosenInlineActionHandler.check_update, given a message update,
\* puts that update at the front of the handler's list of held-back updates,
\* which keeps the three most recent.
C24_MatchingKeepsState ==
    [][ret'.op = "check_update"
          => /\ id_counter' = id_counter
             /\ items' = items
             /\ data' = data
             /\ dispatcher' = dispatcher
             /\ IF /\ handler.cls = "ChosenInlineActionHandler"
                   /\ ret'.args[1].t = "Update"
                   /\ ret'.args[1].kind = "message"
                THEN LET held == <<ret'.args[1]>> \o handler.most_recent_updates
                     IN  handler' = [handler EXCEPT !.most_recent_updates =
                                        [i \in 1..(IF Len(held) > 3 THEN 3 ELSE Len(held))
                                            |-> held[i]]]
                ELSE handler' = handler]_vars

C24_Witness ==
    /\ handler # NoneV
    /\ handler.cls = "ChosenInlineActionHandler"
    /\ ret.op = "check_update"
    /\ ret.args[1].t = "Update"
    /\ ret.args[1].kind = "message"
    /\ Len(handler.most_recent_updates) = 3
    /\ handler.most_recent_updates[1].user # handler.most_recent_updates[3].user
    /\ items # <<>>

\* C29: request context manager.  `async with request` calls initialize on
\* entry and stop on exit, in that order; when initialize raises, the
\* exception leaves the statement and stop has been called all the same.
C29_ContextManager ==
    request.pc = "left" =>
        /\ request.test_flag = <<"initialize", "stop">>
        /\ request.initialize # NoExc => request.raised = request.initialize

\* The text holds the words of part, one after the other.
Carries(text, part) ==
    \E i \in 0..(Len(text.v) - Len(part.v)) :
        SubSeq(text.v, i + 1, i + Len(part.v)) = part.v

\* The class the claim gives for a status code.
ClassByStatus(code) ==
    CASE code = 403 -> "Forbidden"
      [] code \in {404, 401} -> "InvalidToken"
      [] code = 400 -> "BadRequest"
      [] code = 409 -> "Conflict"
      [] OTHER -> "NetworkError"

\* C30: status mapping.  A response whose status is in 200..299 raises
\* nothing; a response with another status whose body carries a description
\* and neither migrate_to_chat_id nor retry_after raises the class its status
\* determines (403 Forbidden, 404 and 401 InvalidToken, 400 BadRequest, 409
\* Conflict, 502 and every other status NetworkError), with a message that
\* carries the description.
C30_StatusMapping ==
    (request.op = "_request_wrapper" /\ request.do_request = NoExc) =>
        IF 200 <= request.code /\ request.code <= 299
        THEN request.exc = NoExc
        ELSE (/\ request.payload.valid
              /\ Truthy(request.payload.description)
              /\ ~HasEntries(request.payload.parameters))
                 => /\ request.exc.cls = ClassByStatus(request.code)
                    /\ Carries(request.message, request.payload.description)

\* The step takes an event from the queue and handles it: the event, the
\* state of its conversation before the step, and what the loop did.
Processed == Len(dispatcher'.update_queue) < Len(dispatcher.update_queue)
ProcessedEvent == Head(dispatcher.update_queue)
StateBefore == dispatcher.conversations[ProcessedEvent.key]
Handled == dispatcher'.last

\* The members of a set of handler indices in registration order.
InOrder(S) ==
    LET F[k \in 0..Len(Registered)] ==
            IF k = 0 THEN <<>>
            ELSE IF k \in S THEN Append(F[k - 1], k)
            ELSE F[k - 1]
    IN  F[Len(Registered)]

\* The handlers that may be matched in the state, and those of them that
\* match the event.
EligibleHandlers(state) == {k \in DOMAIN Registered : Eligible(Registered[k], state)}
MatchingHandlers(state, event) ==
    {k \in EligibleHandlers(state) : Matched(Match(Registered[k], event))}

\* C25 as stated: handler chain priority.  For an event that some handler
\* matches, the handlers are evaluated in registration order up to the first
\* that matches, exactly one handler, that one, is invoked, and no later
\* handler is evaluated or invoked for the event.
C25_ChainPriority ==
    [][(Processed /\ MatchingHandlers(StateBefore, ProcessedEvent) # {})
          => LET hits == MatchingHandlers(StateBefore, ProcessedEvent)
                 first == CHOOSE k \in hits : \A j \in hits : k <= j
             IN  /\ Handled.matched = first
                 /\ Handled.evaluated = InOrder(EligibleHandlers(StateBefore) \cap 1..first)
                 /\ Len(Handled.invoked) = 1
                 /\ Handled.invoked[1].handler = first]_vars

\* C25, amended: for each event the handlers that may be matched in the state
\* of its conversation are evaluated in registration order; the first that
\* matches ends the evaluation, no later handler is evaluated, and that
\* handler is the one invoked for the match; every further handler invoked
\* for the event is the target of a RerouteSignal the callback before it
\* returned; when no handler matches, all are evaluated and none is invoked.
C25_ChainPriorityByMatch ==
    [][Processed
          => LET hits == MatchingHandlers(StateBefore, ProcessedEvent)
             IN  IF hits = {}
                 THEN /\ Handled.matched = 0
                      /\ Handled.evaluated = InOrder(EligibleHandlers(StateBefore))
                      /\ Handled.invoked = <<>>
                 ELSE LET first == CHOOSE k \in hits : \A j \in hits : k <= j
                      IN  /\ Handled.matched = first
                          /\ Handled.evaluated
                                = InOrder(EligibleHandlers(StateBefore) \cap 1..first)
                          /\ Handled.invoked[1].handler = first
                          /\ \A i \in 2..Len(Handled.invoked) :
                                /\ Handled.invoked[i - 1].returned.t = "RerouteToAction"
                                /\ Registered[Handled.invoked[i].handler].action.v
                                      = Handled.invoked[i - 1].returned.v]_vars

C25_Witness ==
    /\ dispatcher.last.event # NoneV
    /\ dispatcher.last.before = ENTRY
    /\ dispatcher.last.matched = 3
    /\ Eligible(Registered[7], ENTRY)
    /\ Matched(Match(Registered[7], dispatcher.last.event))
    /\ Len(dispatcher.last.invoked) = 1
    /\ dispatcher.last.evaluated = <<1, 3>>

\* C26: state confinement.  A handler registered for a conversation state S
\* only (no fallback) is not evaluated, does not match and is not invoked for
\* an event whose conversation is in another state.
C26_StateConfinement ==
    [][Processed
          => \A k \in DOMAIN Registered :
                (Registered[k].role = "states" /\ Registered[k].state # StateBefore)
                    => /\ Handled.matched # k
                       /\ \A i \in DOMAIN Handled.evaluated : Handled.evaluated[i] # k
                       /\ \A i \in DOMAIN Handled.invoked : Handled.invoked[i].handler # k]_vars

C26_Witness ==
    /\ dispatcher.last.event # NoneV
    /\ dispatcher.last.event.kind = "text"
    /\ dispatcher.last.before = ENTRY
    /\ Matched(Match(Registered[2], dispatcher.last.event))
    /\ dispatcher.last.matched = 0
    /\ dispatcher.last.invoked = <<>>
    /\ dispatcher.conversations[dispatcher.last.event.key] = ENTRY

\* C27: reroute.  When a callback returns RerouteToAction(A, payload), the
\* handler registered for A is invoked next, with that payload, in the
\* handling of the same event, before another event is taken from the queue;
\* when the last callback invoked returns, the conversation is in the state
\* that callback returned: the state id, ENTRY for the end signal, the state
\* before the event for None.
C27_Reroute ==
    [][Processed
          => LET invoked == Handled.invoked
             IN  /\ dispatcher'.update_queue = Tail(dispatcher.update_queue)
                 /\ \A i \in DOMAIN invoked :
                       invoked[i].returned.t = "RerouteToAction"
                           => /\ i < Len(invoked)
                              /\ Registered[invoked[i + 1].handler].action.v
                                    = invoked[i].returned.origin_action.v
                              /\ invoked[i + 1].payload = invoked[i].returned.view_model
                 /\ (Len(invoked) > 1 /\ ~invoked[Len(invoked)].raised)
                       => LET returned == invoked[Len(invoked)].returned
                          IN  dispatcher'.conversations[ProcessedEvent.key]
                                = IF returned = NoneV THEN StateBefore
                                  ELSE IF returned = PyInt(END) THEN ENTRY
                                  ELSE returned.v]_vars

C27_Witness ==
    /\ dispatcher.last.event # NoneV
    /\ dispatcher.last.event.kind = "text"
    /\ dispatcher.last.before = States_ADD_ITEMS
    /\ Len(dispatcher.last.invoked) = 2
    /\ Registered[dispatcher.last.invoked[1].handler].callback = "add_item"
    /\ Registered[dispatcher.last.invoked[2].handler].callback = "start"
    /\ dispatcher.last.invoked[2].payload = ViewModel("TextModel")
    /\ dispatcher.last.invoked[2].returned = PyInt(END)
    /\ dispatcher.conversations[dispatcher.last.event.key] = ENTRY
    /\ dispatcher.update_queue # <<>>

\* C28: handler failure containment.  When a callback raises while an event
\* is handled, the loop catches and logs the exception, every conversation is
\* in the state it was in before the event, and the events behind it stay in
\* the queue to be handled.
C28_FailureContainment ==
    [][(Processed /\ \E i \in DOMAIN Handled.invoked : Handled.invoked[i].raised)
          => /\ Handled.error # NoExc
             /\ dispatcher'.logged = dispatcher.logged + 1
             /\ dispatcher'.conversations = dispatcher.conversations
             /\ dispatcher'.update_queue = Tail(dispatcher.update_queue)]_vars

C28_Witness ==
    /\ dispatcher.logged = 1
    /\ dispatcher.last.error = NoExc
    /\ dispatcher.last.matched # 0
    /\ dispatcher.last.before = States_ADD_ITEMS
    /\ dispatcher.received = 3
    /\ dispatcher.update_queue = <<>>

\* C31: single shared counter.  The counter ids issued through the registry
\* objects of the process, of either class, are consecutive values of one
\* sequence in the order of issue (no wrap happens within the calls made),
\* so no two of them are equal.
C31_SharedCounter ==
    \A i, j \in DOMAIN managers.issued :
        i < j => managers.issued[j].id = managers.issued[i].id + (j - i)

\* C39: registry implementations agree.  A DictCallbackManager and a
\* RedisCollectionsCallbackManager on which the same calls were made, in the
\* same order, returned the same values and raised the same exceptions call
\* by call.
C39_ImplementationsAgree ==
    \A d, r \in DOMAIN ManagerObjects :
        (/\ managers.objs[d].cls = "DictCallbackManager"
         /\ managers.objs[r].cls = "RedisCollectionsCallbackManager"
         /\ managers.objs[d].calls = managers.objs[r].calls)
            => managers.objs[d].results = managers.objs[r].results

\* C35: counter range under concurrency.  Whatever the interleaving of the
\* workers, every id get_next_id returned to one of them lies in
\* 0..2^20 - 1.
C35_CounterRange ==
    \A w \in Workers :
        /\ \A i \in DOMAIN workers[w].got : workers[w].got[i] \in 0..COUNTER_RELOOP
        /\ workers[w].id # NoneV => workers[w].id.v \in 0..COUNTER_RELOOP

\* C32: caption override.  A caption argument given to ActionButton that is
\* a string of 1 to 108 characters becomes the text of the button, whatever
\* the caption of the action; the construction raises only when both switch
\* arguments are given.
C32_CaptionOverride ==
    (/\ ret.op = "ActionButton"
     /\ ret.args[2].t = "chars"
     /\ Len(ret.args[2].v) \in 1..108)
        => IF Truthy(ret.args[4]) /\ Truthy(ret.args[5])
           THEN ret.exc # NoExc
           ELSE /\ ret.exc = NoExc
                /\ action_button.text = ret.args[2]

\* C37: serialization idempotence.  A call of to_dict that directly follows
\* a call of to_dict that returned returns the same dict: the same text,
\* switch-inline fields and callback_data.
C37_SerializationIdempotent ==
    [][(ret.op = "to_dict" /\ ret.exc = NoExc /\ ret'.op = "to_dict")
          => /\ ret'.exc = NoExc
             /\ ret'.val = ret.val]_vars

\* The last call was a to_dict that passed its tests and handed the id of
\* the button's entry to insert_callback_id.
Embedded ==
    /\ ret.op = "to_dict"
    /\ action_button # NoneV
    /\ ToDictTests(action_button) = NoExc
    /\ \/ ~Truthy(action_button._is_inline)
       \/ Truthy(action_button.switch_inline_query)
       \/ Truthy(action_button.switch_inline_query_current_chat)

\* C34: id mode by surface.  Every id to_dict passes to insert_callback_id is
\* an integer in 0..2^20 - 1, and an entry with a uuid id belongs to a plain
\* inline button, whose to_dict puts the id into callback_data only.
C34_IdModeBySurface ==
    /\ Embedded =>
          /\ items[action_button._callback.v].id.t = "int"
          /\ items[action_button._callback.v].id.v \in 0..COUNTER_RELOOP
    /\ (/\ ret.op = "to_dict"
        /\ action_button # NoneV
        /\ action_button._callback # NoneV
        /\ items[action_button._callback.v].id.t = "uuid")
          => /\ Truthy(action_button._is_inline)
             /\ ~Truthy(action_button.switch_inline_query)
             /\ ~Truthy(action_button.switch_inline_query_current_chat)

\* C33: end-to-end reply-button identity.  For a reply-keyboard button that
\* was constructed, finalized and serialized, the id callback_id_from_query
\* takes from the serialized text is in the registry, and peek_action of it
\* returns the action id of the button.
C33_ReplyButtonIdentity ==
    (ret.op = "peek_action" /\ action_button # NoneV)
        => /\ ret.exc = NoExc
           /\ ret.val = get_action_id(action_button._action_id)

\* The ids of the entries the step creates.
CreatedIds == {items'[i].id : i \in (Len(items) + 1)..Len(items')}

\* C36: create frame.  A call of create_callback constructs one entry and
\* stores it under its id, which is the only key the call adds or replaces;
\* in every step of the registry every key stays in the registry, every key
\* that is not the id of an entry created in the step keeps its entry, and
\* every entry constructed before keeps its action id, payload and chat.
C36_CreateFrame ==
    [][/\ Len(items') >= Len(items)
       /\ \A i \in 1..Len(items) : items'[i] = items[i]
       /\ \A k \in DOMAIN data :
             /\ k \in DOMAIN data'
             /\ k \notin CreatedIds => data'[k] = data[k]
       /\ ret'.op = "create_callback" =>
             /\ Len(items') = Len(items) + 1
             /\ DOMAIN data' = DOMAIN data \cup {items'[Len(items')].id}
             /\ data'[items'[Len(items')].id] = Len(items')]_vars

C36_Witness ==
    /\ ret.op = "create_callback"
    /\ Len(items) = 2
    /\ DOMAIN data = {items[1].id, items[2].id}
    /\ data[items[1].id] = 1
    /\ items[1].chat_id = PyInt(1)
    /\ items[1].id.t = "int"
    /\ items[2].id.t = "int"

\* C38: payload delivery is chat-checked.  When collect_additional_context
\* of a handler returns with the payload of a registry entry in
\* context.view_model, the entry is bound and its chat is the user the
\* update comes from.
C38_DeliveryChatChecked ==
    (/\ ret.op = "collect_additional_context"
     /\ ret.exc = NoExc
     /\ ret.args[1].t = "Update"
     /\ ret.args[1].id \in DOMAIN data)
        => items[data[ret.args[1].id]].chat_id = PyInt(ret.args[1].user)

====
